---- MODULE Spec2Model ----
(***************************************************************************)
(* Accounting core of the Mobys mobile-money API: the ledger, the balance  *)
(* cache, the transaction status updates, the payment webhook and the      *)
(* webhook retry manager, as implemented in functions/src.                 *)
(*                                                                         *)
(* Firestore collections are the state.  ledger, webhooks and              *)
(* transaction_status_history hold documents whose ids are generated from  *)
(* the clock and a random suffix; they are modelled as sequences in        *)
(* creation order (the index stands for the generated id).                 *)
(***************************************************************************)
EXTENDS Integers, Sequences, FiniteSets, TLC

VARIABLES
    transactions,                \* collection 'transactions': id -> document
    transaction_status_history,  \* collection 'transaction_status_history'
    ledger,                      \* collection 'ledger'
    balances,                    \* collection 'balances': user id -> document
    webhooks,                    \* collection 'webhooks' (handler log entries)
    admin_adjustments,           \* collection 'admin_adjustments'
    admin_audit_log,             \* collection 'admin_audit_log'
    last,                        \* the operation that ran last and its outcome
    webhook_retries,             \* collection 'webhook_retries': id -> document
    now,                         \* Date.now(), in seconds
    lastCron,                    \* the minute for which the cron callback last ran
    scheduled,                   \* how many webhook ids have been handed to scheduleRetry
    isRunning,                   \* WebhookRetryManager.isRunning
    sweep,                       \* the processRetries call in flight
    procs                        \* request handlers in flight (interleaved runs)

coreVars == <<transactions, transaction_status_history, ledger, balances, webhooks,
              admin_adjustments, admin_audit_log>>

retryVars == <<webhook_retries, now, lastCron, scheduled, isRunning, sweep>>

vars == <<transactions, transaction_status_history, ledger, balances, webhooks,
          admin_adjustments, admin_audit_log, last, webhook_retries, now, lastCron,
          scheduled, isRunning, sweep, procs>>

store == <<transactions, transaction_status_history, ledger, balances>>

----------------------------------------------------------------------------
(* Bounds of the model *)

MaxLedger == 2
MaxHistory == 3
MaxWebhooks == 3

----------------------------------------------------------------------------
(* Value domains *)

Users == {"u1", "u2"}

\* transaction ids in the order POST /pay hands them out
TxnOrder == <<"t1", "t2">>

TxnIds == {TxnOrder[i] : i \in 1..Len(TxnOrder)}

\* an id no transaction ever has
UnknownTxn == "t9"

\* a ledger entry's transaction_id is optional
NoTxn == "none"

EntryTypes == {"payment", "payout", "fee", "refund", "adjustment"}

EntryStatuses == {"pending", "completed", "failed", "cancelled"}

TerminalStatuses == {"completed", "failed", "cancelled"}

\* descriptions are strings, modelled as sequences of characters
Blank == <<>>
Space == <<" ">>
Descr == <<"d">>

RECURSIVE TrimLeft(_)
TrimLeft(s) == IF s # <<>> /\ Head(s) = " " THEN TrimLeft(Tail(s)) ELSE s

RECURSIVE TrimRight(_)
TrimRight(s) ==
    IF s # <<>> /\ s[Len(s)] = " " THEN TrimRight(SubSeq(s, 1, Len(s) - 1)) ELSE s

Trim(s) == TrimRight(TrimLeft(s))

----------------------------------------------------------------------------
(* utils/ledger.ts *)

\* a validation that accepts every draft
AcceptsEveryEntry(entry) == "ok"

\* a validation without the balance rule
ValidatesWithoutBalanceRule(entry) ==
    IF entry.user_id = "" THEN "User ID is required"
    ELSE IF entry.amount = 0 THEN "Amount must be a non-zero number"
    ELSE IF entry.currency # "XOF" THEN "Only XOF currency is supported"
    ELSE IF entry.type \notin EntryTypes THEN "Invalid entry type"
    ELSE IF Len(Trim(entry.description)) = 0 THEN "Description is required"
    ELSE "ok"

\* validateLedgerEntry: "ok" or the error of the first rule that fails
validateLedgerEntry(entry) ==
    IF entry.user_id = "" THEN "User ID is required"
    ELSE IF entry.amount = 0 THEN "Amount must be a non-zero number"
    ELSE IF entry.currency # "XOF" THEN "Only XOF currency is supported"
    ELSE IF entry.type \notin EntryTypes THEN "Invalid entry type"
    ELSE IF Len(Trim(entry.description)) = 0 THEN "Description is required"
    ELSE IF entry.balance_after # entry.balance_before + entry.amount
         THEN "Balance calculation mismatch"
    ELSE "ok"

\* the balance document read inside updateBalance's transaction
CurrentBalance(bals, userId) ==
    IF userId \in DOMAIN bals THEN bals[userId]
    ELSE [available_balance |-> 0, pending_balance |-> 0, total_balance |-> 0]

\* a switch that adds the amount whatever the type
AlwaysAdds(available, amount, type) == [error |-> "ok", value |-> available + amount]

\* the switch of updateBalance: the new available balance, or the error thrown
NewAvailableBalance(available, amount, type) ==
    CASE type \in {"payment", "refund", "adjustment"} ->
            [error |-> "ok", value |-> available + amount]
      [] type = "payout" ->
            IF available < amount
            THEN [error |-> "Insufficient balance for payout", value |-> available]
            ELSE [error |-> "ok", value |-> available - amount]
      [] type = "fee" ->
            IF available < amount
            THEN [error |-> "Insufficient balance for fee", value |-> available]
            ELSE [error |-> "ok", value |-> available - amount]
      [] OTHER -> [error |-> "Unknown entry type", value |-> available]

\* a total that leaves out the available balance
TotalOfPendingOnly(available, pending) == pending

\* updateBalance: total_balance: newAvailableBalance + newPendingBalance
TotalBalance(available, pending) == available + pending

\* updateBalance, run to its end with no other writer of the document in
\* between (db.runTransaction): the error and the balances collection after
updateBalance(bals, userId, amount, type) ==
    LET cur == CurrentBalance(bals, userId)
        new == NewAvailableBalance(cur.available_balance, amount, type)
        doc == [available_balance |-> new.value,
                pending_balance |-> cur.pending_balance,
                total_balance |-> TotalBalance(new.value, cur.pending_balance)]
    IN  IF new.error # "ok"
        THEN [error |-> new.error, balances |-> bals]
        ELSE [error |-> "ok",
              balances |-> [u \in DOMAIN bals \cup {userId} |->
                               IF u = userId THEN doc ELSE bals[u]]]

\* getUserBalance(...)?.available_balance || 0
AvailableOrZero(bals, userId) ==
    IF userId \in DOMAIN bals THEN bals[userId].available_balance ELSE 0

\* the document createLedgerEntry writes to 'ledger'
LedgerDoc(entry) ==
    [user_id |-> entry.user_id, transaction_id |-> entry.transaction_id,
     type |-> entry.type, amount |-> entry.amount, currency |-> entry.currency,
     balance_before |-> entry.balance_before, balance_after |-> entry.balance_after,
     description |-> entry.description, status |-> entry.status]

\* a write that reuses the id of the newest document
SetLedgerDocSameId(led, doc) ==
    IF led = <<>> THEN <<doc>> ELSE [led EXCEPT ![Len(led)] = doc]

\* db.collection('ledger').doc(ledgerId).set(ledgerEntry) under a newly
\* generated ledgerId
SetLedgerDoc(led, doc) == Append(led, doc)

\* createLedgerEntry: validate, write the ledger document, then update the
\* balance.  storeFault is the outcome of the store for the balance write.
createLedgerEntry(led, bals, entry, storeFault) ==
    LET v == validateLedgerEntry(entry) IN
    IF v # "ok"
    THEN [error |-> "Invalid ledger entry", ledger |-> led, balances |-> bals]
    ELSE LET led2 == SetLedgerDoc(led, LedgerDoc(entry))
             ub == updateBalance(bals, entry.user_id, entry.amount, entry.type)
         IN  IF storeFault
             THEN [error |-> "store unavailable", ledger |-> led2, balances |-> bals]
             ELSE [error |-> ub.error, ledger |-> led2, balances |-> ub.balances]

\* a status change that never asks for a ledger entry
NeverCreatesLedgerEntry(previousStatus, newStatus, transaction) == FALSE

\* shouldCreateLedgerEntryForStatusChange
shouldCreateLedgerEntryForStatusChange(previousStatus, newStatus, transaction) ==
    \/ previousStatus = "pending" /\ newStatus = "completed" /\ transaction.amount # 0
    \/ previousStatus = "pending" /\ newStatus = "failed" /\ transaction.amount # 0

\* the draft createLedgerEntryForStatusChange builds for a completed payment
CompletedDraft(transactionId, transaction, available) ==
    [user_id |-> transaction.user_id, transaction_id |-> transactionId,
     type |-> "payment", amount |-> transaction.amount,
     currency |-> transaction.currency,
     balance_before |-> available, balance_after |-> available + transaction.amount,
     description |-> Descr, status |-> "completed"]

\* the draft createLedgerEntryForStatusChange builds for a failed payment
FailedDraft(transactionId, transaction, available) ==
    [user_id |-> transaction.user_id, transaction_id |-> transactionId,
     type |-> "adjustment", amount |-> 0,
     currency |-> transaction.currency,
     balance_before |-> available, balance_after |-> available,
     description |-> Descr, status |-> "failed"]

\* createLedgerEntryForStatusChange
createLedgerEntryForStatusChange(txns, led, bals, transactionId, previousStatus, newStatus, storeFault) ==
    IF transactionId \notin DOMAIN txns
    THEN [error |-> "ok", ledger |-> led, balances |-> bals]
    ELSE LET transaction == txns[transactionId]
             available == AvailableOrZero(bals, transaction.user_id)
         IN  IF newStatus = "completed" /\ previousStatus = "pending"
             THEN createLedgerEntry(led, bals,
                      CompletedDraft(transactionId, transaction, available), storeFault)
             ELSE IF newStatus = "failed" /\ previousStatus = "pending"
             THEN createLedgerEntry(led, bals,
                      FailedDraft(transactionId, transaction, available), storeFault)
             ELSE [error |-> "ok", ledger |-> led, balances |-> bals]

\* the record updateTransactionStatus writes to the status history; for_txn is
\* not a field of the document (its id field is the generated status id), it
\* only records for which transaction the document was written
StatusUpdate(transactionId, previousStatus, newStatus, userId) ==
    [for_txn |-> transactionId, status |-> newStatus,
     previous_status |-> previousStatus, updated_by |-> userId]

\* a faulty reading of the current status: every transaction looks pending
PreviousStatusAlwaysPending(transaction) == "pending"

\* transaction?.status || 'unknown' (a stored status is never empty)
PreviousStatus(transaction) == transaction.status

\* a lookup that fails only after the status record has been stored
NotFoundAfterHistory(txns, hist, led, bals, transactionId, newStatus, userId) ==
    [error |-> "Transaction not found", transactions |-> txns,
     history |-> Append(hist, StatusUpdate(transactionId, "unknown", newStatus, userId)),
     ledger |-> led, balances |-> bals]

\* updateTransactionStatus when the transaction document does not exist: the
\* throw comes before any write
TransactionNotFound(txns, hist, led, bals, transactionId, newStatus, userId) ==
    [error |-> "Transaction not found", transactions |-> txns,
     history |-> hist, ledger |-> led, balances |-> bals]

\* updateTransactionStatus: the error (or "ok") and the four collections after
updateTransactionStatus(txns, hist, led, bals, transactionId, newStatus, userId, storeFault) ==
    IF transactionId \notin DOMAIN txns
    THEN TransactionNotFound(txns, hist, led, bals, transactionId, newStatus, userId)
    ELSE LET transaction == txns[transactionId]
             previousStatus == PreviousStatus(transaction)
             txns2 == [txns EXCEPT ![transactionId].status = newStatus]
             hist2 == Append(hist,
                         StatusUpdate(transactionId, previousStatus, newStatus, userId))
         IN  IF shouldCreateLedgerEntryForStatusChange(previousStatus, newStatus,
                                                       transaction)
             THEN LET c == createLedgerEntryForStatusChange(txns2, led, bals,
                               transactionId, previousStatus, newStatus, storeFault)
                  IN  [error |-> c.error, transactions |-> txns2, history |-> hist2,
                       ledger |-> c.ledger, balances |-> c.balances]
             ELSE [error |-> "ok", transactions |-> txns2, history |-> hist2,
                   ledger |-> led, balances |-> bals]

\* the signed contribution of a completed entry in reconcileLedger's reduce
SignedAmount(entry) ==
    CASE entry.type \in {"payment", "refund", "adjustment"} -> entry.amount
      [] entry.type \in {"payout", "fee"} -> 0 - entry.amount
      [] OTHER -> 0

\* the limit reconcileLedger passes to getUserLedgerEntries
ReconcileLimit == 1000

\* where('user_id', '==', userId).orderBy('created_at', 'desc')
NewestFirst(led, userId) ==
    LET mine == SelectSeq(led, LAMBDA e : e.user_id = userId)
    IN  [i \in 1..Len(mine) |-> mine[Len(mine) + 1 - i]]

\* getUserLedgerEntries: the user's entries, newest first, at most limit
getUserLedgerEntries(led, userId, limit) ==
    LET all == NewestFirst(led, userId)
    IN  IF Len(all) > limit THEN SubSeq(all, 1, limit) ELSE all

\* the reduce of reconcileLedger over entries[lo..hi]
RECURSIVE ReduceSigned(_, _, _)
ReduceSigned(entries, lo, hi) ==
    IF lo > hi THEN 0
    ELSE IF lo = hi THEN SignedAmount(entries[lo])
    ELSE LET mid == (lo + hi) \div 2
         IN  ReduceSigned(entries, lo, mid) + ReduceSigned(entries, mid + 1, hi)

\* reconcileLedger: filter the completed entries, then reduce
ExpectedBalance(entries) ==
    LET completed == SelectSeq(entries, LAMBDA e : e.status = "completed")
    IN  ReduceSigned(completed, 1, Len(completed))

\* reconcileLedger
reconcileLedger(led, bals, userId) ==
    LET expected == ExpectedBalance(getUserLedgerEntries(led, userId, ReconcileLimit))
        actual == AvailableOrZero(bals, userId)
    IN  [expectedBalance |-> expected, actualBalance |-> actual,
         difference |-> expected - actual]

----------------------------------------------------------------------------
(* utils/admin.ts *)

\* a test for the empty string only
IsEmpty(text) == Len(text) = 0

\* !text || text.trim().length === 0
IsBlank(text) == Len(Trim(text)) = 0

\* createManualLedgerAdjustment: the error (or "ok") and the collections after
createManualLedgerAdjustment(led, bals, adjs, audit, userId, amount, description, reason, adminId, storeFault) ==
    LET same == [error |-> "ok", ledger |-> led, balances |-> bals,
                 admin_adjustments |-> adjs, admin_audit_log |-> audit]
    IN
    IF amount = 0 THEN [same EXCEPT !.error = "Amount must be a non-zero number"]
    ELSE IF IsBlank(description)
    THEN [same EXCEPT !.error = "Description is required"]
    ELSE IF IsBlank(reason) THEN [same EXCEPT !.error = "Reason is required"]
    ELSE LET balanceBefore == AvailableOrZero(bals, userId)
             c == createLedgerEntry(led, bals,
                     [user_id |-> userId, transaction_id |-> NoTxn,
                      type |-> "adjustment", amount |-> amount, currency |-> "XOF",
                      balance_before |-> balanceBefore,
                      balance_after |-> balanceBefore + amount,
                      description |-> <<"A", ":", " ">> \o description,
                      status |-> "completed"], storeFault)
         IN  IF c.error # "ok"
             THEN [same EXCEPT !.error = c.error, !.ledger = c.ledger,
                               !.balances = c.balances]
             ELSE [error |-> "ok", ledger |-> c.ledger, balances |-> c.balances,
                   admin_adjustments |->
                       Append(adjs, [user_id |-> userId, amount |-> amount,
                                     admin_id |-> adminId]),
                   admin_audit_log |->
                       Append(audit, [admin_id |-> adminId,
                                      action |-> "ledger_adjustment"])]

----------------------------------------------------------------------------
(* routes.ts: POST /webhook/payment *)

\* provider statuses the webhooks of the model carry ("" is a missing status)
ProviderStatuses == {"SUCCESS", "paid", "FAILED", "PROCESSING", ""}

\* a status compared as it was sent
KeepsCase(s) == s

\* String.prototype.toLowerCase on the statuses of the model
ToLowerCase(s) ==
    CASE s \in {"SUCCESS", "Success"} -> "success"
      [] s \in {"COMPLETED", "Completed"} -> "completed"
      [] s \in {"PAID", "Paid"} -> "paid"
      [] s \in {"FAILED", "Failed"} -> "failed"
      [] s \in {"CANCELLED", "Cancelled"} -> "cancelled"
      [] s \in {"EXPIRED", "Expired"} -> "expired"
      [] s = "PROCESSING" -> "processing"
      [] s = "INITIATED" -> "initiated"
      [] OTHER -> s

\* the status normalization of POST /webhook/payment
NormalizeStatus(status) ==
    LET normalizedStatus == ToLowerCase(status) IN
    IF normalizedStatus \in {"success", "completed", "paid"} THEN "completed"
    ELSE IF normalizedStatus \in {"failed", "cancelled", "expired"} THEN "failed"
    ELSE "pending"

\* a webhook request: the provider its fields identify, the transaction id
\* field ("" when absent) and the status field ("" when absent)
Payload(provider, transactionId, status) ==
    [provider |-> provider, transaction_id |-> transactionId, status |-> status]

\* the webhook requests of the model: the well-formed ones of both providers
\* and one of each malformed shape
Payloads ==
    {Payload(p, t, s) : p \in {"wave", "orange_money"}, t \in TxnIds \cup {UnknownTxn},
                        s \in ProviderStatuses \ {""}}
    \cup {Payload("wave", "t1", ""), Payload("wave", "", "paid"),
          Payload("orange_money", "t1", ""), Payload("orange_money", "", "paid"),
          Payload("unknown", "t1", "paid")}

\* provider detection and ProviderFactory.parseWebhookPayload:
\* "parsed", "throws" (the parser rejects the body) or "invalid" (400)
ParseOutcome(payload) ==
    CASE payload.provider = "wave" ->
            IF payload.transaction_id # "" /\ payload.status # ""
            THEN "parsed" ELSE "throws"
      [] payload.provider = "orange_money" ->
            IF payload.transaction_id # "" /\ payload.status # ""
            THEN "parsed" ELSE "invalid"
      [] OTHER -> "invalid"

----------------------------------------------------------------------------
(* Operations run one at a time *)

Respond(op, result, value) == last' = [op |-> op, result |-> result, value |-> value]

Init ==
    /\ transactions = <<>>
    /\ transaction_status_history = <<>>
    /\ ledger = <<>>
    /\ balances = <<>>
    /\ webhooks = <<>>
    /\ admin_adjustments = <<>>
    /\ admin_audit_log = <<>>
    /\ last = [op |-> "init", result |-> "ok", value |-> 0]
    /\ webhook_retries = <<>>
    /\ now = 0
    /\ lastCron = 0
    /\ scheduled = 0
    /\ isRunning = FALSE
    /\ sweep = [active |-> FALSE, now |-> 0, pending |-> {}]
    /\ procs = <<>>

\* the id POST /pay generates for a new transaction
FreshTxn == TxnOrder[Cardinality(DOMAIN transactions) + 1]

\* POST /pay, after authentication and the method and phone checks
Pay(userId, amount, currency) ==
    /\ Cardinality(DOMAIN transactions) < Len(TxnOrder)
    /\ Len(ledger) < MaxLedger
    /\ IF amount <= 0
       THEN Respond("pay", "INVALID_AMOUNT", 400) /\ UNCHANGED coreVars
       ELSE IF currency # "XOF"
       THEN Respond("pay", "INVALID_CURRENCY", 400) /\ UNCHANGED coreVars
       ELSE LET tid == FreshTxn
                doc == [user_id |-> userId, amount |-> amount,
                        currency |-> currency, status |-> "pending"]
                currentBalance == AvailableOrZero(balances, userId)
                c == createLedgerEntry(ledger, balances,
                        [user_id |-> userId, transaction_id |-> tid,
                         type |-> "payment", amount |-> 0, currency |-> currency,
                         balance_before |-> currentBalance,
                         balance_after |-> currentBalance,
                         description |-> Descr, status |-> "pending"], FALSE)
            IN  /\ transactions' =
                       [t \in DOMAIN transactions \cup {tid} |->
                           IF t = tid THEN doc ELSE transactions[t]]
                /\ ledger' = c.ledger
                /\ balances' = c.balances
                /\ UNCHANGED <<transaction_status_history, webhooks,
                               admin_adjustments, admin_audit_log>>
                /\ IF c.error = "ok"
                   THEN Respond("pay", "ok", 200)
                   ELSE Respond("pay", "PAYMENT_ERROR", 500)
    /\ UNCHANGED <<retryVars, procs>>

\* POST /webhook/payment, after the IP and signature middleware
WebhookPost(payload, storeFault) ==
    /\ Len(webhooks) < MaxWebhooks
    /\ Len(transaction_status_history) < MaxHistory
    /\ Len(ledger) < MaxLedger
    /\ LET outcome == ParseOutcome(payload)
           finalStatus == NormalizeStatus(payload.status)
       IN
       CASE outcome = "invalid" ->
              Respond("webhook", "INVALID_WEBHOOK_PAYLOAD", 400) /\ UNCHANGED coreVars
         [] outcome = "throws" ->
              /\ webhooks' = Append(webhooks,
                     [transaction_id |-> "unknown", processed |-> FALSE])
              /\ Respond("webhook", "WEBHOOK_PROCESSING_ERROR", 500)
              /\ UNCHANGED <<transactions, transaction_status_history, ledger,
                             balances, admin_adjustments, admin_audit_log>>
         [] outcome = "parsed" /\ payload.transaction_id \notin DOMAIN transactions ->
              Respond("webhook", "TRANSACTION_NOT_FOUND", 404) /\ UNCHANGED coreVars
         [] OTHER ->
              LET r == updateTransactionStatus(transactions,
                           transaction_status_history, ledger, balances,
                           payload.transaction_id, finalStatus, "system", storeFault)
              IN  /\ transactions' = r.transactions
                  /\ transaction_status_history' = r.history
                  /\ ledger' = r.ledger
                  /\ balances' = r.balances
                  /\ webhooks' = Append(webhooks,
                         [transaction_id |-> payload.transaction_id,
                          processed |-> (r.error = "ok")])
                  /\ UNCHANGED <<admin_adjustments, admin_audit_log>>
                  /\ IF r.error = "ok"
                     THEN Respond("webhook", "ok", 200)
                     ELSE Respond("webhook", "WEBHOOK_PROCESSING_ERROR", 500)
    /\ UNCHANGED <<retryVars, procs>>

\* statuses callers of updateTransactionStatus pass
NewStatuses == {"pending", "completed", "failed", "cancelled"}

\* a call of updateTransactionStatus
UpdateTransactionStatusCall(transactionId, newStatus, userId, storeFault) ==
    /\ Len(transaction_status_history) < MaxHistory
    /\ Len(ledger) < MaxLedger
    /\ LET r == updateTransactionStatus(transactions, transaction_status_history,
                    ledger, balances, transactionId, newStatus, userId, storeFault)
       IN  /\ transactions' = r.transactions
           /\ transaction_status_history' = r.history
           /\ ledger' = r.ledger
           /\ balances' = r.balances
           /\ Respond("updateTransactionStatus", r.error, 0)
    /\ UNCHANGED <<webhooks, admin_adjustments, admin_audit_log, retryVars, procs>>

\* amounts of the drafts and adjustments of the model
Amounts == {-1, 2}

\* what is wrong with a draft a caller passes to createLedgerEntry
DraftDefects == {"none", "user", "amount", "currency", "type", "description", "balance"}

\* the draft a caller builds from the balance it has just read (as the routes,
\* updateTransactionStatus and the admin tools do), with one rule broken
Draft(userId, type, amount, status, defect) ==
    LET before == AvailableOrZero(balances, userId) IN
    [user_id |-> IF defect = "user" THEN "" ELSE userId,
     transaction_id |-> NoTxn,
     type |-> IF defect = "type" THEN "bonus" ELSE type,
     amount |-> IF defect = "amount" THEN 0 ELSE amount,
     currency |-> IF defect = "currency" THEN "EUR" ELSE "XOF",
     balance_before |-> before,
     balance_after |-> IF defect = "balance" THEN before + amount + 1
                       ELSE IF defect = "amount" THEN before
                       ELSE before + amount,
     description |-> IF defect = "description" THEN Space ELSE Descr,
     status |-> status]

\* the drafts of the model
Drafts ==
    {Draft(u, t, a, "completed", "none") : u \in Users, t \in EntryTypes, a \in Amounts}
    \cup {Draft(u, "payment", 2, s, "none") : u \in Users, s \in EntryStatuses}
    \cup {Draft("u1", "payment", 2, "completed", d) : d \in DraftDefects}

\* a call of createLedgerEntry
CreateLedgerEntryCall(entry, storeFault) ==
    /\ Len(ledger) < MaxLedger
    /\ LET c == createLedgerEntry(ledger, balances, entry, storeFault)
       IN  /\ ledger' = c.ledger
           /\ balances' = c.balances
           /\ Respond("createLedgerEntry", c.error, 0)
    /\ UNCHANGED <<transactions, transaction_status_history, webhooks,
                   admin_adjustments, admin_audit_log, retryVars, procs>>

\* POST /admin/ledger/adjustment: a call of createManualLedgerAdjustment
ManualAdjustment(userId, amount, description, reason, storeFault) ==
    /\ Len(ledger) < MaxLedger
    /\ LET r == createManualLedgerAdjustment(ledger, balances, admin_adjustments,
                    admin_audit_log, userId, amount, description, reason, "admin",
                    storeFault)
       IN  /\ ledger' = r.ledger
           /\ balances' = r.balances
           /\ admin_adjustments' = r.admin_adjustments
           /\ admin_audit_log' = r.admin_audit_log
           /\ Respond("createManualLedgerAdjustment", r.error, 0)
    /\ UNCHANGED <<transactions, transaction_status_history, webhooks, retryVars, procs>>

\* a reconciliation that also writes the expected balance to the record
ReconcileAndRepair(userId) ==
    LET r == reconcileLedger(ledger, balances, userId) IN
    /\ Respond("reconcileLedger", "ok", r.difference)
    /\ balances' = [u \in DOMAIN balances \cup {userId} |->
                       IF u = userId
                       THEN [available_balance |-> r.expectedBalance,
                             pending_balance |-> 0,
                             total_balance |-> r.expectedBalance]
                       ELSE balances[u]]
    /\ UNCHANGED <<transactions, transaction_status_history, ledger, webhooks,
                   admin_adjustments, admin_audit_log, retryVars, procs>>

\* POST /ledger/reconcile: a call of reconcileLedger
Reconcile(userId) ==
    /\ Respond("reconcileLedger", "ok", reconcileLedger(ledger, balances, userId).difference)
    /\ UNCHANGED <<coreVars, retryVars, procs>>

Next ==
    \/ \E e \in Drafts, f \in BOOLEAN : CreateLedgerEntryCall(e, f)
    \/ \E u \in Users, a \in Amounts \cup {0}, d \in {Blank, Descr},
          r \in {Space, Descr}, f \in BOOLEAN : ManualAdjustment(u, a, d, r, f)
    \/ \E u \in Users : Reconcile(u)

Spec == Init /\ [][Next]_vars

PayAmounts == {0, 2}

NextWebhook ==
    \/ \E u \in Users, a \in PayAmounts, c \in {"XOF", "EUR"} : Pay(u, a, c)
    \/ \E p \in Payloads, f \in BOOLEAN : WebhookPost(p, f)

SpecWebhook == Init /\ [][NextWebhook]_vars

NextStatus ==
    \/ \E u \in Users, a \in PayAmounts, c \in {"XOF", "EUR"} : Pay(u, a, c)
    \/ \E t \in TxnIds \cup {UnknownTxn}, s \in NewStatuses, f \in BOOLEAN :
          UpdateTransactionStatusCall(t, s, "admin", f)

SpecStatus == Init /\ [][NextStatus]_vars

----------------------------------------------------------------------------
(* Properties of the operations run one at a time *)

\* the completed payment entries of a transaction
PaymentEntries(led, transactionId) ==
    {i \in 1..Len(led) : /\ led[i].transaction_id = transactionId
                         /\ led[i].type = "payment"
                         /\ led[i].status = "completed"}

RECURSIVE SumAmounts(_, _)
SumAmounts(txns, ids) ==
    IF ids = {} THEN 0
    ELSE LET t == CHOOSE x \in ids : TRUE
         IN  txns[t].amount + SumAmounts(txns, ids \ {t})

\* the amount of all transactions of a user
OwnedAmount(userId) ==
    SumAmounts(transactions, {t \in DOMAIN transactions : transactions[t].user_id = userId})

\* C1: after any sequence of webhook deliveries handled one at a time, every
\* transaction has at most one completed payment entry and its owner has been
\* credited its amount at most once (the balance never exceeds the sum of the
\* amounts of the owner's transactions).
C1_NoDoubleCredit ==
    /\ \A t \in DOMAIN transactions : Cardinality(PaymentEntries(ledger, t)) <= 1
    /\ \A u \in Users : AvailableOrZero(balances, u) <= OwnedAmount(u)

\* C2: updateTransactionStatus on a transaction whose status is completed,
\* failed or cancelled is rejected with InvalidTransition, whatever the target,
\* and changes neither the transaction, the history, the ledger nor the balance.
C2_TerminalRejected ==
    [][\A t \in TxnIds, s \in NewStatuses, f \in BOOLEAN :
          (/\ t \in DOMAIN transactions
           /\ transactions[t].status \in TerminalStatuses
           /\ UpdateTransactionStatusCall(t, s, "admin", f))
          => (last'.result = "InvalidTransition" /\ UNCHANGED store)]_vars

\* reconcileLedger(account).difference is 0 for every account
Reconciled ==
    \A u \in Users : reconcileLedger(ledger, balances, u).difference = 0

\* C3: every operation that completes successfully leaves the difference of
\* reconcileLedger at 0 for every account (it is 0 initially).
C3_ReconcilePreserved ==
    [][(Reconciled /\ last'.result = "ok") => Reconciled']_vars

\* C4: createLedgerEntry for a payout or fee above the available balance fails
\* with an insufficient-balance error and persists nothing.
C4_InsufficientRejected ==
    [][\A e \in Drafts :
          (/\ e.type \in {"payout", "fee"}
           /\ validateLedgerEntry(e) = "ok"
           /\ e.amount > AvailableOrZero(balances, e.user_id)
           /\ CreateLedgerEntryCall(e, FALSE))
          => (/\ last'.result \in {"Insufficient balance for payout",
                                   "Insufficient balance for fee"}
              /\ ledger' = ledger
              /\ balances' = balances)]_vars

\* C5: no balance record ever has a negative available_balance.
C5_NoNegativeBalance ==
    \A u \in DOMAIN balances : balances[u].available_balance >= 0

\* C8: when a createLedgerEntry call has ended, either the entry is persisted
\* and its delta is applied to the balance, or neither happened.
C8_AppendAndBalanceAtomic ==
    [][\A e \in Drafts, f \in BOOLEAN :
          CreateLedgerEntryCall(e, f)
          => \/ (ledger' = ledger /\ balances' = balances)
             \/ (/\ ledger' = Append(ledger, LedgerDoc(e))
                 /\ updateBalance(balances, e.user_id, e.amount, e.type).error = "ok"
                 /\ balances' =
                      updateBalance(balances, e.user_id, e.amount, e.type).balances)]_vars

\* C9: a webhook delivered for a transaction that is already in the terminal
\* state its status normalizes to creates no ledger entry and changes no
\* balance (the count of payment entries of a completed transaction stays).
C9_RedeliveryNoEffect ==
    [][\A t \in DOMAIN transactions :
          transactions[t].status \in TerminalStatuses =>
          \A s \in {x \in ProviderStatuses :
                       NormalizeStatus(x) = transactions[t].status},
             p \in {"wave", "orange_money"}, f \in BOOLEAN :
             (ParseOutcome(Payload(p, t, s)) = "parsed" /\ WebhookPost(Payload(p, t, s), f))
             => (/\ ledger' = ledger
                 /\ balances' = balances
                 /\ Cardinality(PaymentEntries(ledger', t)) =
                    Cardinality(PaymentEntries(ledger, t)))]_vars

\* a completed transaction whose success webhook was delivered twice: the
\* second update went from completed to completed and the entry count is 1
C9_Witness ==
    \E t \in DOMAIN transactions :
        /\ transactions[t].status = "completed"
        /\ Len(transaction_status_history) >= 2
        /\ LET h == transaction_status_history[Len(transaction_status_history)]
           IN  h.for_txn = t /\ h.previous_status = "completed" /\ h.status = "completed"
        /\ Len(webhooks) >= 2
        /\ webhooks[Len(webhooks)] = [transaction_id |-> t, processed |-> TRUE]
        /\ Cardinality(PaymentEntries(ledger, t)) = 1
        /\ AvailableOrZero(balances, transactions[t].user_id) = transactions[t].amount

----------------------------------------------------------------------------
(* Request handlers run concurrently: one step per store round trip (await) *)

MaxProcs == 2

ProcIds == 1..MaxProcs

\* a balance document as transaction.get returns it
ReadBalance(bals, userId) ==
    [exists |-> userId \in DOMAIN bals, doc |-> CurrentBalance(bals, userId)]

NoRead == [exists |-> FALSE, doc |-> CurrentBalance(<<>>, "")]

Idle ==
    [kind |-> "idle", pc |-> "idle", txn |-> "", newStatus |-> "",
     previousStatus |-> "", shouldCreate |-> FALSE, user |-> "", amount |-> 0,
     type |-> "", available |-> 0, read |-> NoRead, attempts |-> 0, result |-> ""]

\* a commit that never looks at what it read
CommitsBlindly(read, current) == TRUE

\* db.runTransaction commits the write only if the document read inside the
\* transaction has not been written since; otherwise the update function reruns
CommitAllowed(read, current) == read = current

Goto(p, fields) == procs' = [procs EXCEPT ![p] = fields]

\* a POST /webhook/payment request arrives and is parsed and normalized
StartWebhook(p, payload) ==
    /\ procs[p].pc = "idle"
    /\ ParseOutcome(payload) = "parsed"
    /\ Goto(p, [Idle EXCEPT !.kind = "webhook", !.pc = "route_get",
                            !.txn = payload.transaction_id,
                            !.newStatus = NormalizeStatus(payload.status)])
    /\ UNCHANGED <<coreVars, last, retryVars>>

\* routes.ts: the handler looks the transaction up
RouteGet(p) ==
    /\ procs[p].pc = "route_get"
    /\ IF procs[p].txn \in DOMAIN transactions
       THEN Goto(p, [procs[p] EXCEPT !.pc = "uts_get"])
       ELSE Goto(p, [procs[p] EXCEPT !.pc = "done", !.result = "TRANSACTION_NOT_FOUND"])
    /\ UNCHANGED <<coreVars, last, retryVars>>

\* updateTransactionStatus reads the transaction and its current status
UtsGet(p) ==
    /\ procs[p].pc = "uts_get"
    /\ IF procs[p].txn \in DOMAIN transactions
       THEN LET transaction == transactions[procs[p].txn]
                previousStatus == PreviousStatus(transaction)
            IN  Goto(p, [procs[p] EXCEPT
                    !.pc = "uts_update",
                    !.previousStatus = previousStatus,
                    !.shouldCreate = shouldCreateLedgerEntryForStatusChange(
                                         previousStatus, procs[p].newStatus, transaction)])
       ELSE Goto(p, [procs[p] EXCEPT !.pc = "log_fail"])
    /\ UNCHANGED <<coreVars, last, retryVars>>

\* updateTransactionStatus writes the new status
UtsUpdate(p) ==
    /\ procs[p].pc = "uts_update"
    /\ transactions' = [transactions EXCEPT ![procs[p].txn].status = procs[p].newStatus]
    /\ Goto(p, [procs[p] EXCEPT !.pc = "uts_history"])
    /\ UNCHANGED <<transaction_status_history, ledger, balances, webhooks,
                   admin_adjustments, admin_audit_log, last, retryVars>>

\* updateTransactionStatus writes the status history record
UtsHistory(p) ==
    /\ procs[p].pc = "uts_history"
    /\ transaction_status_history' =
           Append(transaction_status_history,
                  StatusUpdate(procs[p].txn, procs[p].previousStatus,
                               procs[p].newStatus, "system"))
    /\ Goto(p, [procs[p] EXCEPT
                   !.pc = IF procs[p].shouldCreate THEN "sc_get_txn" ELSE "log_ok"])
    /\ UNCHANGED <<transactions, ledger, balances, webhooks,
                   admin_adjustments, admin_audit_log, last, retryVars>>

\* createLedgerEntryForStatusChange reads the transaction again
ScGetTxn(p) ==
    /\ procs[p].pc = "sc_get_txn"
    /\ IF procs[p].txn \in DOMAIN transactions
       THEN Goto(p, [procs[p] EXCEPT !.pc = "sc_get_balance",
                                     !.user = transactions[procs[p].txn].user_id,
                                     !.amount = transactions[procs[p].txn].amount])
       ELSE Goto(p, [procs[p] EXCEPT !.pc = "log_ok"])
    /\ UNCHANGED <<coreVars, last, retryVars>>

\* createLedgerEntryForStatusChange reads the owner's balance
ScGetBalance(p) ==
    /\ procs[p].pc = "sc_get_balance"
    /\ Goto(p, [procs[p] EXCEPT !.pc = "cle_set",
                                !.available = AvailableOrZero(balances, procs[p].user)])
    /\ UNCHANGED <<coreVars, last, retryVars>>

\* the draft createLedgerEntryForStatusChange passes to createLedgerEntry
StatusChangeDraft(p) ==
    LET transaction == [user_id |-> procs[p].user, amount |-> procs[p].amount,
                        currency |-> "XOF"]
    IN  IF procs[p].newStatus = "completed"
        THEN CompletedDraft(procs[p].txn, transaction, procs[p].available)
        ELSE FailedDraft(procs[p].txn, transaction, procs[p].available)

\* createLedgerEntry validates the draft and writes the ledger document
CleSet(p) ==
    /\ procs[p].pc = "cle_set"
    /\ Len(ledger) < MaxLedger
    /\ LET entry == StatusChangeDraft(p) IN
       IF validateLedgerEntry(entry) # "ok"
       THEN Goto(p, [procs[p] EXCEPT !.pc = "log_fail"]) /\ UNCHANGED ledger
       ELSE /\ ledger' = Append(ledger, LedgerDoc(entry))
            /\ Goto(p, [procs[p] EXCEPT !.pc = "ub_read", !.type = entry.type])
    /\ UNCHANGED <<transactions, transaction_status_history, balances, webhooks,
                   admin_adjustments, admin_audit_log, last, retryVars>>

\* a call of updateBalance of its own (not through createLedgerEntry)
StartUpdateBalance(p, userId, amount, type) ==
    /\ procs[p].pc = "idle"
    /\ Goto(p, [Idle EXCEPT !.kind = "updateBalance", !.pc = "ub_read",
                            !.user = userId, !.amount = amount, !.type = type])
    /\ UNCHANGED <<coreVars, last, retryVars>>

\* updateBalance, inside the transaction: read the document and compute
UbRead(p) ==
    /\ procs[p].pc = "ub_read"
    /\ LET r == ReadBalance(balances, procs[p].user)
           new == NewAvailableBalance(r.doc.available_balance, procs[p].amount,
                                      procs[p].type)
       IN  IF new.error # "ok"
           THEN Goto(p, [procs[p] EXCEPT
                    !.pc = IF procs[p].kind = "webhook" THEN "log_fail" ELSE "done",
                    !.result = new.error])
           ELSE Goto(p, [procs[p] EXCEPT !.pc = "ub_commit", !.read = r,
                                         !.attempts = procs[p].attempts + 1])
    /\ UNCHANGED <<coreVars, last, retryVars>>

\* updateBalance: the transaction commits, or reruns after a conflicting write
UbCommit(p) ==
    /\ procs[p].pc = "ub_commit"
    /\ IF CommitAllowed(procs[p].read, ReadBalance(balances, procs[p].user))
       THEN LET bals == IF procs[p].read.exists
                        THEN [u \in {procs[p].user} |-> procs[p].read.doc]
                        ELSE <<>>
                ub == updateBalance(bals, procs[p].user, procs[p].amount, procs[p].type)
            IN  /\ balances' = [u \in DOMAIN balances \cup {procs[p].user} |->
                                   IF u = procs[p].user
                                   THEN ub.balances[u] ELSE balances[u]]
                /\ Goto(p, [procs[p] EXCEPT
                       !.pc = IF procs[p].kind = "webhook" THEN "log_ok" ELSE "done",
                       !.result = "ok"])
       ELSE /\ Goto(p, [procs[p] EXCEPT !.pc = "ub_read"])
            /\ UNCHANGED balances
    /\ UNCHANGED <<transactions, transaction_status_history, ledger, webhooks,
                   admin_adjustments, admin_audit_log, last, retryVars>>

\* the handler logs the processed webhook and answers 200
LogOk(p) ==
    /\ procs[p].pc = "log_ok"
    /\ webhooks' = Append(webhooks, [transaction_id |-> procs[p].txn, processed |-> TRUE])
    /\ Goto(p, [procs[p] EXCEPT !.pc = "done", !.result = "ok"])
    /\ UNCHANGED <<transactions, transaction_status_history, ledger, balances,
                   admin_adjustments, admin_audit_log, last, retryVars>>

\* the handler's catch block logs the failed webhook and answers 500
LogFail(p) ==
    /\ procs[p].pc = "log_fail"
    /\ webhooks' = Append(webhooks, [transaction_id |-> procs[p].txn, processed |-> FALSE])
    /\ Goto(p, [procs[p] EXCEPT !.pc = "done", !.result = "WEBHOOK_PROCESSING_ERROR"])
    /\ UNCHANGED <<transactions, transaction_status_history, ledger, balances,
                   admin_adjustments, admin_audit_log, last, retryVars>>

\* the store after POST /pay has created transaction t1 of amount 2 for u1
InitConc ==
    /\ transactions = [t \in {"t1"} |-> [user_id |-> "u1", amount |-> 2,
                                        currency |-> "XOF", status |-> "pending"]]
    /\ transaction_status_history = <<>>
    /\ ledger = <<>>
    /\ balances = <<>>
    /\ webhooks = <<>>
    /\ admin_adjustments = <<>>
    /\ admin_audit_log = <<>>
    /\ last = [op |-> "pay", result |-> "PAYMENT_ERROR", value |-> 500]
    /\ webhook_retries = <<>>
    /\ now = 0
    /\ lastCron = 0
    /\ scheduled = 0
    /\ isRunning = FALSE
    /\ sweep = [active |-> FALSE, now |-> 0, pending |-> {}]
    /\ procs = [p \in ProcIds |-> Idle]

\* the deliveries that run concurrently
ConcPayloads ==
    {Payload("wave", t, s) : t \in {"t1", UnknownTxn}, s \in {"SUCCESS", "FAILED", "PROCESSING"}}

NextConc ==
    \E p \in ProcIds :
        \/ \E w \in ConcPayloads : StartWebhook(p, w)
        \/ RouteGet(p)
        \/ UtsGet(p)
        \/ UtsUpdate(p)
        \/ UtsHistory(p)
        \/ ScGetTxn(p)
        \/ ScGetBalance(p)
        \/ CleSet(p)
        \/ UbRead(p)
        \/ UbCommit(p)
        \/ LogOk(p)
        \/ LogFail(p)

SpecConc == InitConc /\ [][NextConc]_vars

\* the empty store, with no call started
InitBalanceConc ==
    /\ transactions = <<>>
    /\ transaction_status_history = <<>>
    /\ ledger = <<>>
    /\ balances = <<>>
    /\ webhooks = <<>>
    /\ admin_adjustments = <<>>
    /\ admin_audit_log = <<>>
    /\ last = [op |-> "init", result |-> "ok", value |-> 0]
    /\ webhook_retries = <<>>
    /\ now = 0
    /\ lastCron = 0
    /\ scheduled = 0
    /\ isRunning = FALSE
    /\ sweep = [active |-> FALSE, now |-> 0, pending |-> {}]
    /\ procs = [p \in ProcIds |-> Idle]

NextBalanceConc ==
    \E p \in ProcIds :
        \/ \E u \in Users, a \in {1, 2}, t \in {"payment", "payout", "bonus"} :
              StartUpdateBalance(p, u, a, t)
        \/ UbRead(p)
        \/ UbCommit(p)

SpecBalanceConc == InitBalanceConc /\ [][NextBalanceConc]_vars

\* C6: once two webhook deliveries carrying a success status for the same
\* pending transaction have both been processed, under any interleaving,
\* exactly one payment entry exists for it and the balance was credited once.
C6_ConcurrentSuccessOnce ==
    (\A p \in ProcIds : /\ procs[p].pc = "done"
                        /\ procs[p].txn = "t1"
                        /\ procs[p].newStatus = "completed")
    => /\ Cardinality(PaymentEntries(ledger, "t1")) = 1
       /\ AvailableOrZero(balances, "u1") = transactions["t1"].amount

\* the signed delta of an updateBalance call
Delta(amount, type) ==
    IF type \in {"payout", "fee"} THEN 0 - amount ELSE amount

RECURSIVE AppliedDeltas(_, _)
AppliedDeltas(ps, userId) ==
    IF ps = {} THEN 0
    ELSE LET p == CHOOSE x \in ps : TRUE
             rest == AppliedDeltas(ps \ {p}, userId)
         IN  IF /\ procs[p].kind = "updateBalance" /\ procs[p].pc = "done"
                /\ procs[p].result = "ok" /\ procs[p].user = userId
             THEN rest + Delta(procs[p].amount, procs[p].type)
             ELSE rest

\* C7: under every interleaving of updateBalance calls, the available balance
\* of each account is its starting balance (0) plus the signed deltas of
\* exactly the calls on it that have succeeded.
C7_NoLostUpdate ==
    \A u \in Users : AvailableOrZero(balances, u) = AppliedDeltas(ProcIds, u)

\* two calls on the same account have both succeeded, one of them after its
\* transaction was rerun because the other committed in between
C7_Witness ==
    \E p, q \in ProcIds :
        /\ p # q
        /\ procs[p].pc = "done" /\ procs[p].result = "ok"
        /\ procs[q].pc = "done" /\ procs[q].result = "ok"
        /\ procs[p].user = procs[q].user
        /\ procs[p].attempts = 2
        /\ balances[procs[p].user].available_balance =
              Delta(procs[p].amount, procs[p].type) + Delta(procs[q].amount, procs[q].type)

----------------------------------------------------------------------------
(* utils/phone-validation.ts: WebhookRetryManager.  Time is in seconds. *)

MaxTime == 600
MaxScheduleAt == 0

\* RETRY_CONFIG
MaxRetries == 5
RetryDelays == <<1, 5, 15, 60, 300>>
BackoffMultiplier == 2

\* the cron expression '* * * * *': once a minute
CronPeriod == 60

\* webhook ids in the order they are handed to scheduleRetry (each webhook has
\* its own generated id)
RetryOrder == <<"w1", "w2">>

\* the delay handleRetryFailure picks after the failure that makes the count
\* newRetryCount: retryDelays[newRetryCount], or the doubled last delay
NextDelay(newRetryCount) ==
    IF newRetryCount < Len(RetryDelays)
    THEN RetryDelays[newRetryCount + 1]
    ELSE RetryDelays[Len(RetryDelays)]
         * BackoffMultiplier ^ (newRetryCount - Len(RetryDelays) + 1)

\* a budget check that is off by one
BudgetExceeded(newRetryCount) == newRetryCount > MaxRetries

\* handleRetryFailure: newRetryCount >= RETRY_CONFIG.maxRetries
BudgetExhausted(newRetryCount) == newRetryCount >= MaxRetries

\* handleRetryFailure: the document after the update, computed from the
\* retryData the sweep read.  attempts and since are not fields of the
\* document: they record how often the webhook was retried and when it was
\* scheduled or last failed.
handleRetryFailure(current, retryData, time) ==
    LET newRetryCount == retryData.retryCount + 1 IN
    IF BudgetExhausted(newRetryCount)
    THEN [current EXCEPT !.retryCount = newRetryCount,
                         !.status = "permanently_failed",
                         !.attempts = @ + 1,
                         !.since = time]
    ELSE [current EXCEPT !.retryCount = newRetryCount,
                         !.nextRetryAt = time + NextDelay(newRetryCount),
                         !.attempts = @ + 1,
                         !.since = time]

\* a query that returns only documents that have never failed
DueNewOnly(retries, time) ==
    {id \in DOMAIN retries :
        retries[id].nextRetryAt <= time /\ retries[id].retryCount < 1}

\* the documents the query of processRetries returns
DueRetries(retries, time) ==
    {id \in DOMAIN retries :
        retries[id].nextRetryAt <= time /\ retries[id].retryCount < MaxRetries}

\* scheduleRetry for a webhook that failed
ScheduleRetry(transactionId) ==
    /\ scheduled < Len(RetryOrder)
    /\ now <= MaxScheduleAt
    /\ LET id == RetryOrder[scheduled + 1] IN
       webhook_retries' =
           [w \in DOMAIN webhook_retries \cup {id} |->
               IF w = id
               THEN [txn |-> transactionId, retryCount |-> 0,
                     nextRetryAt |-> now + RetryDelays[1], status |-> "",
                     createdAt |-> now, attempts |-> 0, since |-> now]
               ELSE webhook_retries[w]]
    /\ scheduled' = scheduled + 1
    /\ UNCHANGED <<coreVars, last, now, lastCron, isRunning, sweep, procs>>

\* time passes: a second while webhooks are still being scheduled, or up to
\* the next full minute; the cron callback of a full minute runs before the
\* minute is over
Advance(d) ==
    /\ d > 0
    /\ ~(now % CronPeriod = 0 /\ now > lastCron)
    /\ now + d <= MaxTime
    /\ \/ d = 1 /\ now < MaxScheduleAt
       \/ d = CronPeriod - (now % CronPeriod)
    /\ now' = now + d
    /\ UNCHANGED <<coreVars, last, webhook_retries, lastCron, scheduled, isRunning,
                   sweep, procs>>

\* a callback that never sees a running sweep
NeverOverlapping(running) == FALSE

\* the cron callback: if (this.isRunning) return
Overlapping(running) == running

\* the cron callback: skip when a sweep is running, else start processRetries,
\* which reads the clock and queries the due retries
CronTick ==
    /\ now % CronPeriod = 0
    /\ now > lastCron
    /\ lastCron' = now
    /\ IF Overlapping(isRunning)
       THEN UNCHANGED <<isRunning, sweep>>
       ELSE /\ isRunning' = TRUE
            /\ sweep' = [active |-> TRUE, now |-> now,
                         pending |-> {[id |-> id, doc |-> webhook_retries[id]] :
                                         id \in DueRetries(webhook_retries, now)}]
    /\ UNCHANGED <<coreVars, last, webhook_retries, now, scheduled, procs>>

\* processWebhook: TRUE when the simulated processing succeeds and the
\* transaction named by the payload (if any) could be updated
ProcessWebhookSucceeds(transactionId, lucky) ==
    lucky /\ (transactionId = "" \/ transactionId \in DOMAIN transactions)

\* the second failure of handleRetryFailure: the document the sweep read is
\* gone, so the update inside retryWebhook throws, the catch of the loop calls
\* handleRetryFailure again, and that call throws out of processRetries
Throws(item, lucky) ==
    /\ ~ProcessWebhookSucceeds(item.doc.txn, lucky)
    /\ item.id \notin DOMAIN webhook_retries

\* a callback that clears the flag only after a sweep that returned
GuardKeptOnThrow(threw) == threw

\* the cron callback: finally { this.isRunning = false }, the value of
\* isRunning once processRetries has returned or thrown
RunningAfterSweep(threw) == FALSE

\* one round of the loop of processRetries: retryWebhook on one document of
\* the query result, handleRetryFailure when processing fails.  An update of
\* a document that no longer exists throws out of the loop and ends the sweep.
SweepRound(item, lucky) ==
    /\ sweep.active
    /\ item \in sweep.pending
    /\ LET id == item.id
           ok == ProcessWebhookSucceeds(item.doc.txn, lucky)
       IN  /\ IF lucky /\ item.doc.txn \in DOMAIN transactions
              THEN transactions' = [transactions EXCEPT ![item.doc.txn].status = "success"]
              ELSE UNCHANGED transactions
           /\ IF ok
              THEN /\ webhook_retries' =
                        [w \in DOMAIN webhook_retries \ {id} |-> webhook_retries[w]]
                   /\ sweep' = [sweep EXCEPT !.pending = sweep.pending \ {item}]
                   /\ UNCHANGED isRunning
              ELSE IF ~Throws(item, lucky)
              THEN /\ webhook_retries' =
                        [webhook_retries EXCEPT
                            ![id] = handleRetryFailure(@, item.doc, now)]
                   /\ sweep' = [sweep EXCEPT !.pending = sweep.pending \ {item}]
                   /\ UNCHANGED isRunning
              ELSE /\ UNCHANGED webhook_retries
                   /\ sweep' = [active |-> FALSE, now |-> 0, pending |-> {}]
                   /\ isRunning' = RunningAfterSweep(TRUE)
    /\ UNCHANGED <<transaction_status_history, ledger, balances, webhooks,
                   admin_adjustments, admin_audit_log, now, lastCron,
                   scheduled, procs>>

\* a round of the sweep, leaving aside what the callback writes to the console
SweepStep(item, lucky) ==
    /\ SweepRound(item, lucky)
    /\ UNCHANGED last

\* processRetries returns and the cron callback clears isRunning
SweepEnd ==
    /\ sweep.active
    /\ sweep.pending = {}
    /\ sweep' = [active |-> FALSE, now |-> 0, pending |-> {}]
    /\ isRunning' = RunningAfterSweep(FALSE)
    /\ UNCHANGED <<coreVars, last, webhook_retries, now, lastCron, scheduled, procs>>

SecondsPerDay == 86400

\* cleanupOldRetries(daysOld)
CleanupOldRetries(daysOld) ==
    /\ LET cutoff == now - daysOld * SecondsPerDay IN
       webhook_retries' =
           [w \in {x \in DOMAIN webhook_retries : ~(webhook_retries[x].createdAt < cutoff)}
               |-> webhook_retries[w]]
    /\ UNCHANGED <<coreVars, last, now, lastCron, scheduled, isRunning, sweep, procs>>

NextRetry ==
    \/ \E t \in {"t1", UnknownTxn} : ScheduleRetry(t)
    \/ \E d \in 1..CronPeriod : Advance(d)
    \/ CronTick
    \/ \E item \in sweep.pending, lucky \in BOOLEAN : SweepStep(item, lucky)
    \/ SweepEnd
    \/ \E daysOld \in {0, 30} : CleanupOldRetries(daysOld)

SpecRetry == InitConc /\ [][NextRetry]_vars

\* the retry documents a step of the sweep loop has just handled
Handled == {item.id : item \in sweep.pending} \ {item.id : item \in sweep'.pending}

C11_PermanentlyFailedKept ==
    [][\A id \in DOMAIN webhook_retries :
          webhook_retries[id].status = "permanently_failed"
          => id \in DOMAIN webhook_retries']_vars

\* C12: when processing of a POST /webhook/payment request fails after the
\* signature check has passed (the status update of a known transaction
\* throws and the handler answers 500), a webhook_retries record is created for the webhook with retryCount 0 and nextRetryAt one
\* second (the first delay) from now.
C12_FailureSchedulesRetry ==
    [][(/\ Len(webhooks') = Len(webhooks) + 1
        /\ webhooks'[Len(webhooks')].transaction_id \in DOMAIN transactions
        /\ last'.op = "webhook"
        /\ last'.result = "WEBHOOK_PROCESSING_ERROR")
       => \E id \in DOMAIN webhook_retries' \ DOMAIN webhook_retries :
             /\ webhook_retries'[id].retryCount = 0
             /\ webhook_retries'[id].nextRetryAt = now + RetryDelays[1]]_vars

\* C13: within one process at most one retry sweep is in flight: while
\* processRetries is running isRunning is set, and a cron tick that fires
\* then leaves the running sweep as it is and starts no other.
C13_SingleSweep ==
    [][/\ sweep.active => isRunning
       /\ (sweep.active /\ lastCron' # lastCron) => (sweep' = sweep /\ isRunning')]_vars

\* a cron tick has fired while a sweep started a minute or more earlier still
\* has a document to handle
C13_Witness ==
    /\ sweep.active
    /\ sweep.pending # {}
    /\ lastCron > sweep.now
    /\ isRunning

\* C14: updateTransactionStatus from pending to completed on a transaction of
\* amount A appends exactly one ledger entry (type payment, amount A, status
\* completed, linked to the transaction), increases the owner's
\* available_balance by exactly A and leaves reconcileLedger's difference at 0.
C14_CompletionCredits ==
    [][\A t \in DOMAIN transactions :
          (/\ last'.op = "updateTransactionStatus"
           /\ last'.result = "ok"
           /\ transactions[t].status = "pending"
           /\ transactions'[t].status = "completed")
          => LET A == transactions[t].amount
                 owner == transactions[t].user_id
                 entry == ledger'[Len(ledger')]
             IN  /\ Len(ledger') = Len(ledger) + 1
                 /\ SubSeq(ledger', 1, Len(ledger)) = ledger
                 /\ entry.type = "payment"
                 /\ entry.amount = A
                 /\ entry.status = "completed"
                 /\ entry.transaction_id = t
                 /\ entry.user_id = owner
                 /\ AvailableOrZero(balances', owner)
                        = AvailableOrZero(balances, owner) + A
                 /\ \A u \in Users \ {owner} :
                        AvailableOrZero(balances', u) = AvailableOrZero(balances, u)
                 /\ Reconciled => Reconciled']_vars

\* a pending transaction has just been completed: its payment entry is the
\* newest of the ledger and the books reconcile
C14_Witness ==
    /\ last.op = "updateTransactionStatus"
    /\ last.result = "ok"
    /\ Len(ledger) > 0
    /\ LET entry == ledger[Len(ledger)] IN
       /\ entry.type = "payment"
       /\ entry.transaction_id \in DOMAIN transactions
       /\ transactions[entry.transaction_id].status = "completed"
       /\ entry.amount = transactions[entry.transaction_id].amount
       /\ AvailableOrZero(balances, entry.user_id) = entry.amount
    /\ Reconciled

\* C15: updateTransactionStatus from pending to failed and from pending to
\* cancelled each succeed and append exactly one zero-amount adjustment ledger
\* entry linked to the transaction, with available_balance unchanged.
C15_FailureAudited ==
    [][\A t \in DOMAIN transactions :
          (/\ last'.op = "updateTransactionStatus"
           /\ transactions[t].status = "pending"
           /\ transactions'[t].status \in {"failed", "cancelled"})
          => /\ last'.result = "ok"
             /\ Len(ledger') = Len(ledger) + 1
             /\ SubSeq(ledger', 1, Len(ledger)) = ledger
             /\ ledger'[Len(ledger')].type = "adjustment"
             /\ ledger'[Len(ledger')].amount = 0
             /\ ledger'[Len(ledger')].transaction_id = t
             /\ balances' = balances]_vars

\* C16: POST /pay with valid input succeeds, stores the transaction with status
\* pending and persists one zero-amount ledger entry for it (status pending),
\* leaving the balance unchanged.
C16_PayCreatesPlaceholder ==
    [][\A t \in DOMAIN transactions' \ DOMAIN transactions :
          /\ last'.op = "pay"
          /\ last'.result = "ok"
          /\ transactions'[t].status = "pending"
          /\ Len(ledger') = Len(ledger) + 1
          /\ ledger'[Len(ledger')].transaction_id = t
          /\ ledger'[Len(ledger')].amount = 0
          /\ ledger'[Len(ledger')].status = "pending"
          /\ balances' = balances]_vars

\* C17: every persisted ledger entry satisfies balance_after = balance_before
\* + amount, whatever its type and whichever caller of createLedgerEntry
\* wrote it.
C17_BalanceArithmetic ==
    \A i \in 1..Len(ledger) :
        ledger[i].balance_after = ledger[i].balance_before + ledger[i].amount

\* the ledger holds a payout or fee entry and an adjustment entry
C17_Witness ==
    /\ \E i \in 1..Len(ledger) : ledger[i].type \in {"payout", "fee"}
    /\ \E i \in 1..Len(ledger) : ledger[i].type = "adjustment"

----------------------------------------------------------------------------
(* All operations that run one at a time *)

NextSystem ==
    \/ Pay("u1", 2, "XOF")
    \/ \E t \in TxnIds, st \in {"SUCCESS", "FAILED", "PROCESSING"} :
          WebhookPost(Payload("wave", t, st), FALSE)
    \/ \E t \in {"payment", "payout"}, f \in BOOLEAN :
          CreateLedgerEntryCall(Draft("u1", t, 2, "completed", "none"), f)
    \/ \E a \in Amounts : ManualAdjustment("u1", a, Descr, Descr, FALSE)

SpecSystem == Init /\ [][NextSystem]_vars

\* C18: the ledger is append-only: once an entry is persisted no operation
\* modifies any of its fields or deletes it; the persisted entries only grow.
C18_AppendOnly ==
    [][/\ Len(ledger') >= Len(ledger)
       /\ SubSeq(ledger', 1, Len(ledger)) = ledger]_vars

\* an entry was appended to a ledger that already held one, by a request that
\* changed the status of a transaction
C18_Witness ==
    /\ Len(ledger) >= 2
    /\ ledger[Len(ledger)].transaction_id # NoTxn
    /\ last.op \in {"webhook", "updateTransactionStatus"}

\* calls of createLedgerEntry with payment and payout drafts of both accounts,
\* each well-formed or with one rule broken
RuleDrafts ==
    {Draft(u, t, a, "completed", d) :
        u \in Users, t \in {"payment", "payout"}, a \in Amounts, d \in DraftDefects}

NextDrafts == \E e \in RuleDrafts, f \in BOOLEAN : CreateLedgerEntryCall(e, f)

SpecDrafts == Init /\ [][NextDrafts]_vars

\* a draft that breaks one of the rules for ledger entries
BreaksRule(e) ==
    \/ e.user_id = ""
    \/ e.amount = 0
    \/ e.currency # "XOF"
    \/ e.type \notin {"payment", "payout", "fee", "refund", "adjustment"}
    \/ Trim(e.description) = <<>>
    \/ e.balance_after # e.balance_before + e.amount

\* C19: createLedgerEntry with a draft that violates a validation rule (empty
\* user_id, zero amount, currency other than XOF, unknown type, blank
\* description, balance_after different from balance_before + amount) throws
\* and persists nothing: the ledger and the balances are unchanged.
C19_InvalidDraftRejected ==
    [][\A e \in RuleDrafts, f \in BOOLEAN :
          (BreaksRule(e) /\ CreateLedgerEntryCall(e, f))
          => /\ last'.result # "ok"
             /\ ledger' = ledger
             /\ balances' = balances]_vars

\* a draft has just been rejected while the ledger already held an entry
C19_Witness ==
    /\ last.op = "createLedgerEntry"
    /\ last.result = "Invalid ledger entry"
    /\ Len(ledger) > 0
    /\ balances # <<>>

----------------------------------------------------------------------------
(* Calls of updateBalance, one at a time *)

MaxBalance == 4

\* the amounts and types updateBalance is called with ("bonus" is no entry type)
BalanceAmounts == {-1, 1, 2}
BalanceTypes == EntryTypes \cup {"bonus"}

\* a call of updateBalance(userId, amount, type, 'XOF')
UpdateBalanceCall(userId, amount, type) ==
    /\ AvailableOrZero(balances, userId) <= MaxBalance
    /\ AvailableOrZero(balances, userId) >= 0 - MaxBalance
    /\ LET r == updateBalance(balances, userId, amount, type)
       IN  /\ balances' = r.balances
           /\ Respond("updateBalance", r.error, AvailableOrZero(r.balances, userId))
    /\ UNCHANGED <<transactions, transaction_status_history, ledger, webhooks,
                   admin_adjustments, admin_audit_log, retryVars, procs>>

NextBalance ==
    \E u \in Users, a \in BalanceAmounts, t \in BalanceTypes : UpdateBalanceCall(u, a, t)

SpecBalance == Init /\ [][NextBalance]_vars

\* C20: updateBalance(account, amount, kind) starting from available balance b
\* (0 for an account with no balance record) yields b + amount for payment,
\* refund and adjustment, b - amount for payout and fee when b >= amount, and
\* for any other kind fails without creating or changing the balance record.
C20_UpdateBalanceArithmetic ==
    [][\A u \in Users, a \in BalanceAmounts, t \in BalanceTypes :
          UpdateBalanceCall(u, a, t)
          => LET b == IF u \in DOMAIN balances THEN balances[u].available_balance ELSE 0
             IN  /\ t \in {"payment", "refund", "adjustment"}
                    => /\ last'.result = "ok"
                       /\ u \in DOMAIN balances'
                       /\ balances'[u].available_balance = b + a
                 /\ (t \in {"payout", "fee"} /\ b >= a)
                    => /\ last'.result = "ok"
                       /\ u \in DOMAIN balances'
                       /\ balances'[u].available_balance = b - a
                 /\ t \notin {"payment", "refund", "adjustment", "payout", "fee"}
                    => /\ last'.result # "ok"
                       /\ balances' = balances
                 /\ \A v \in DOMAIN balances \ {u} :
                       v \in DOMAIN balances' /\ balances'[v] = balances[v]]_vars

\* a call with an unknown kind has just failed for an account with no balance
\* record, while the other account holds what its calls added and subtracted
C20_Witness ==
    /\ last.op = "updateBalance"
    /\ last.result = "Unknown entry type"
    /\ "u2" \notin DOMAIN balances
    /\ "u1" \in DOMAIN balances
    /\ balances["u1"].available_balance = 3

\* C21: every stored balance record satisfies total_balance =
\* available_balance + pending_balance after any sequence of updateBalance
\* calls.
C21_TotalIsSum ==
    \A u \in DOMAIN balances :
        balances[u].total_balance
            = balances[u].available_balance + balances[u].pending_balance

\* both accounts hold a record written by several calls, one above and one
\* below zero
C21_Witness ==
    /\ DOMAIN balances = Users
    /\ balances["u1"].available_balance = 3
    /\ balances["u2"].available_balance = -2
    /\ last.op = "updateBalance"

\* C22: reconcileLedger is read-only: for every account and every state,
\* calling it changes no ledger entry, no balance record and no transaction.
C22_ReconcileReadOnly ==
    [][last'.op = "reconcileLedger"
       => /\ ledger' = ledger
          /\ balances' = balances
          /\ transactions' = transactions]_vars

\* reconcileLedger has just reported a difference for a ledger with entries
C22_Witness ==
    /\ last.op = "reconcileLedger"
    /\ last.value # 0
    /\ Len(ledger) > 0
    /\ ~Reconciled

----------------------------------------------------------------------------
(* An account with more ledger entries than reconcileLedger reads *)

MaxLongLedger == 1001

\* createLedgerEntry for a completed payment of 1 to u1
LongLedgerAppend ==
    /\ Len(ledger) < MaxLongLedger
    /\ LET c == createLedgerEntry(ledger, balances,
                    Draft("u1", "payment", 1, "completed", "none"), FALSE)
       IN  /\ ledger' = c.ledger
           /\ balances' = c.balances
           /\ Respond("createLedgerEntry", c.error, 0)
    /\ UNCHANGED <<transactions, transaction_status_history, webhooks,
                   admin_adjustments, admin_audit_log, retryVars, procs>>

NextLongLedger ==
    \/ LongLedgerAppend
    \/ Reconcile("u1")

SpecLongLedger == Init /\ [][NextLongLedger]_vars

\* the signed sum of the completed entries of an account among led[lo..hi]
RECURSIVE CompletedSum(_, _, _, _)
CompletedSum(led, userId, lo, hi) ==
    IF lo > hi THEN 0
    ELSE IF lo = hi
    THEN IF led[lo].user_id = userId /\ led[lo].status = "completed"
         THEN IF led[lo].type \in {"payment", "refund", "adjustment"}
              THEN led[lo].amount
              ELSE IF led[lo].type \in {"payout", "fee"} THEN 0 - led[lo].amount
              ELSE 0
         ELSE 0
    ELSE LET mid == (lo + hi) \div 2
         IN  CompletedSum(led, userId, lo, mid) + CompletedSum(led, userId, mid + 1, hi)

\* C23: reconcileLedger(account) returns expectedBalance equal to the signed
\* sum over all completed ledger entries of the account, actualBalance equal
\* to the cached available_balance (0 without a balance record) and difference
\* = expectedBalance - actualBalance, however many entries the account has.
C23_ReconcileSumsAll ==
    last.op = "reconcileLedger"
    => /\ reconcileLedger(ledger, balances, "u1").expectedBalance
             = CompletedSum(ledger, "u1", 1, Len(ledger))
       /\ reconcileLedger(ledger, balances, "u1").actualBalance
             = (IF "u1" \in DOMAIN balances THEN balances["u1"].available_balance ELSE 0)
       /\ last.value = CompletedSum(ledger, "u1", 1, Len(ledger))
             - (IF "u1" \in DOMAIN balances THEN balances["u1"].available_balance ELSE 0)

----------------------------------------------------------------------------
(* Webhooks in the spellings providers use for a status *)

CompletedSpellings ==
    {"success", "SUCCESS", "Success", "completed", "COMPLETED", "paid", "PAID", "Paid"}
FailedSpellings ==
    {"failed", "FAILED", "Failed", "cancelled", "CANCELLED", "expired", "Expired"}
OtherSpellings == {"PROCESSING", "pending", "INITIATED", "unknown"}

NextSpellings ==
    \/ Pay("u1", 2, "XOF")
    \/ \E st \in CompletedSpellings \cup FailedSpellings \cup OtherSpellings :
          WebhookPost(Payload("wave", "t1", st), FALSE)

SpecSpellings == Init /\ [][NextSpellings]_vars

\* C24: the status normalization of POST /webhook/payment is case-insensitive
\* and total: success, completed and paid map to completed; failed, cancelled
\* and expired map to failed; every other provider status, a missing one
\* included, maps to pending; the handler writes the normalized status.
C24_NormalizationTotal ==
    [][/\ \A st \in CompletedSpellings : NormalizeStatus(st) = "completed"
       /\ \A st \in FailedSpellings : NormalizeStatus(st) = "failed"
       /\ \A st \in OtherSpellings \cup {""} : NormalizeStatus(st) = "pending"
       /\ \A st \in CompletedSpellings \cup FailedSpellings \cup OtherSpellings :
             ("t1" \in DOMAIN transactions /\ WebhookPost(Payload("wave", "t1", st), FALSE))
             => transactions'["t1"].status
                   = IF st \in CompletedSpellings THEN "completed"
                     ELSE IF st \in FailedSpellings THEN "failed"
                     ELSE "pending"]_vars

\* the transaction has been completed, put back to pending and failed by three
\* webhooks
C24_Witness ==
    /\ "t1" \in DOMAIN transactions
    /\ Len(transaction_status_history) = 3
    /\ transaction_status_history[1].status = "completed"
    /\ transaction_status_history[2].status = "pending"
    /\ transaction_status_history[3].status = "failed"
    /\ transactions["t1"].status = "failed"

----------------------------------------------------------------------------
(* The /webhook/payment routes with their middleware *)

\* what webhookSignatureVerification finds in the headers of a request: no
\* signature, one of another length than the HMAC, a wrong one, the right one
Signatures == {"none", "malformed", "invalid", "valid"}

\* webhookIpWhitelist followed by webhookSignatureVerification in production:
\* "next" or the code of the response that ends the request
PostMiddleware(ipAllowed, signature) ==
    IF ~ipAllowed THEN "UNAUTHORIZED_IP"
    ELSE CASE signature = "none" -> "MISSING_SIGNATURE"
           [] signature = "malformed" -> "SIGNATURE_VERIFICATION_ERROR"
           [] signature = "invalid" -> "INVALID_SIGNATURE"
           [] OTHER -> "next"

\* the status code sent with a middleware rejection
RejectionCode(code) ==
    CASE code = "UNAUTHORIZED_IP" -> 403
      [] code = "SIGNATURE_VERIFICATION_ERROR" -> 500
      [] OTHER -> 401

\* a POST /webhook/payment request from its arrival
WebhookPostRequest(ipAllowed, signature, payload, storeFault) ==
    LET m == PostMiddleware(ipAllowed, signature) IN
    IF m = "next"
    THEN WebhookPost(payload, storeFault)
    ELSE /\ Respond("webhook", m, RejectionCode(m))
         /\ UNCHANGED <<coreVars, retryVars, procs>>

\* a redirect query: order_id and status ("" when absent)
Query(orderId, status) == [order_id |-> orderId, status |-> status]

\* the status the redirect handler stores
RedirectStatus(status) ==
    LET normalizedStatus == ToLowerCase(status) IN
    IF normalizedStatus \in {"success", "succeeded", "ok", "completed"} THEN "success"
    ELSE IF normalizedStatus \in {"failed", "error", "cancelled", "declined"} THEN "failed"
    ELSE normalizedStatus

\* a GET /webhook/payment request from its arrival: webhookIpWhitelist, then
\* the handler; the signature of the request is not looked at
WebhookGetRequest(ipAllowed, signature, query) ==
    /\ IF ~ipAllowed
       THEN Respond("redirect", "UNAUTHORIZED_IP", 403) /\ UNCHANGED transactions
       ELSE IF query.order_id = "" \/ query.status = ""
       THEN Respond("redirect", "INVALID_WEBHOOK_PARAMS", 400) /\ UNCHANGED transactions
       ELSE IF query.order_id \notin DOMAIN transactions
       THEN Respond("redirect", "WEBHOOK_REDIRECT_ERROR", 400) /\ UNCHANGED transactions
       ELSE /\ transactions' = [transactions EXCEPT
                   ![query.order_id].status = RedirectStatus(query.status)]
            /\ Respond("redirect", "ok", 200)
    /\ UNCHANGED <<transaction_status_history, ledger, balances, webhooks,
                   admin_adjustments, admin_audit_log, retryVars, procs>>

RequestPayloads ==
    {Payload("wave", "t1", "SUCCESS"), Payload("wave", "t1", "FAILED"),
     Payload("wave", UnknownTxn, "SUCCESS")}

Queries ==
    {Query("t1", "SUCCESS"), Query("t1", "PROCESSING"),
     Query(UnknownTxn, "SUCCESS"), Query("t1", "")}

NextRequests ==
    \/ Pay("u1", 2, "XOF")
    \/ \E ip \in BOOLEAN, sig \in Signatures, payload \in RequestPayloads :
          WebhookPostRequest(ip, sig, payload, FALSE)
    \/ \E ip \in BOOLEAN, sig \in Signatures, query \in Queries :
          WebhookGetRequest(ip, sig, query)

SpecRequests == Init /\ [][NextRequests]_vars

\* C25: in production no request to POST or GET /webhook/payment without a
\* valid signature changes a transaction's status, the ledger or a balance.
C25_UnsignedChangesNothing ==
    [][\A ip \in BOOLEAN, sig \in Signatures \ {"valid"} :
          (\/ \E payload \in RequestPayloads : WebhookPostRequest(ip, sig, payload, FALSE)
           \/ \E query \in Queries : WebhookGetRequest(ip, sig, query))
          => /\ transactions' = transactions
             /\ ledger' = ledger
             /\ balances' = balances]_vars

----------------------------------------------------------------------------
(* updateTransactionStatus for a transaction that does not exist *)

\* C26: updateTransactionStatus for a transaction id that does not exist fails
\* with "Transaction not found" and writes no transaction document, no status
\* history record, no ledger entry and no balance.
C26_UnknownTransactionWritesNothing ==
    [][\A t \in TxnIds \cup {UnknownTxn}, s \in NewStatuses, f \in BOOLEAN :
          (t \notin DOMAIN transactions /\ UpdateTransactionStatusCall(t, s, "admin", f))
          => /\ last'.result = "Transaction not found"
             /\ transactions' = transactions
             /\ transaction_status_history' = transaction_status_history
             /\ ledger' = ledger
             /\ balances' = balances]_vars

\* a call for an unknown transaction has failed in a store that holds a
\* transaction, a status record and a ledger entry
C26_Witness ==
    /\ last.op = "updateTransactionStatus"
    /\ last.result = "Transaction not found"
    /\ DOMAIN transactions # {}
    /\ Len(transaction_status_history) > 0
    /\ Len(ledger) > 0

----------------------------------------------------------------------------
(* The transaction status over every path that writes it *)

\* C27: in every reachable state the status of every transaction is one of
\* pending, completed, failed, cancelled, whichever path wrote it.
C27_StatusInMachine ==
    \A t \in DOMAIN transactions :
        transactions[t].status \in {"pending", "completed", "failed", "cancelled"}

\* C28: every change of a transaction's status is recorded in the status
\* history: a transaction that is no longer pending has a history record with
\* the transaction's current status.
C28_StatusChangeRecorded ==
    \A t \in DOMAIN transactions :
        transactions[t].status # "pending"
        => \E i \in 1..Len(transaction_status_history) :
              /\ transaction_status_history[i].for_txn = t
              /\ transaction_status_history[i].status = transactions[t].status

\* C29: a retry that succeeds for a webhook of an existing transaction leaves
\* the transaction completed, with one completed payment entry for its amount
\* and the balance of its user credited with that amount, as first-time
\* processing of a success webhook does.
C29_RetryAppliesWebhook ==
    [][\A item \in sweep.pending :
          (item.doc.txn \in DOMAIN transactions /\ SweepStep(item, TRUE))
          => LET t == item.doc.txn
                 u == transactions[t].user_id
             IN  /\ transactions'[t].status = "completed"
                 /\ Len(PaymentEntries(ledger', t)) = 1
                 /\ PaymentEntries(ledger', t)[1].amount = transactions[t].amount
                 /\ AvailableOrZero(balances', u)
                       = AvailableOrZero(balances, u) + transactions[t].amount]_vars

----------------------------------------------------------------------------
(* Two server instances, each with its own WebhookRetryManager *)

MaxFleetRetries == 1
MaxFleetTime == 180

\* the instances: each is a process with its own singleton, its own isRunning
\* flag and its own cron job; webhook_retries and transactions are shared
Instances == {"i1", "i2"}

\* an instance between sweeps.  applied is not state of the program: it holds
\* the <<record id, due time>> pairs whose webhook this instance has applied.
InstanceIdle(lastTick, applied) ==
    [isRunning |-> FALSE, lastCron |-> lastTick, active |-> FALSE,
     pending |-> {}, applied |-> applied]

InitFleet ==
    /\ transactions = [t \in {"t1"} |-> [user_id |-> "u1", amount |-> 2,
                                        currency |-> "XOF", status |-> "pending"]]
    /\ transaction_status_history = <<>>
    /\ ledger = <<>>
    /\ balances = <<>>
    /\ webhooks = <<>>
    /\ admin_adjustments = <<>>
    /\ admin_audit_log = <<>>
    /\ last = [op |-> "pay", result |-> "PAYMENT_ERROR", value |-> 500]
    /\ webhook_retries = <<>>
    /\ now = 0
    /\ lastCron = 0
    /\ scheduled = 0
    /\ isRunning = FALSE
    /\ sweep = [active |-> FALSE, now |-> 0, pending |-> {}]
    /\ procs = [i \in Instances |-> InstanceIdle(0, {})]

\* scheduleRetry on either instance
FleetScheduleRetry(transactionId) ==
    /\ scheduled < MaxFleetRetries
    /\ ScheduleRetry(transactionId)

\* time passes up to the next full minute; the cron callbacks of a full minute
\* run on every instance before the minute is over
FleetAdvance(d) ==
    /\ d > 0
    /\ \A i \in Instances : ~(now % CronPeriod = 0 /\ now > procs[i].lastCron)
    /\ now + d <= MaxFleetTime
    /\ \/ d = 1 /\ now < MaxScheduleAt
       \/ d = CronPeriod - (now % CronPeriod)
    /\ now' = now + d
    /\ UNCHANGED <<coreVars, last, webhook_retries, lastCron, scheduled, isRunning,
                   sweep, procs>>

\* the cron callback of instance i: skip when its own sweep is running, else
\* start processRetries, which queries the due retries
FleetCronTick(i) ==
    /\ now % CronPeriod = 0
    /\ now > procs[i].lastCron
    /\ procs' = [procs EXCEPT ![i] =
           IF Overlapping(procs[i].isRunning)
           THEN [@ EXCEPT !.lastCron = now]
           ELSE [@ EXCEPT !.lastCron = now, !.isRunning = TRUE, !.active = TRUE,
                          !.pending = {[id |-> id, doc |-> webhook_retries[id]] :
                                          id \in DueRetries(webhook_retries, now)}]]
    /\ UNCHANGED <<coreVars, last, webhook_retries, now, lastCron, scheduled,
                   isRunning, sweep>>

\* one round of the loop of processRetries on instance i
FleetSweepStep(i, item, lucky) ==
    /\ procs[i].active
    /\ item \in procs[i].pending
    /\ LET id == item.id
           ok == ProcessWebhookSucceeds(item.doc.txn, lucky)
           exists == id \in DOMAIN webhook_retries
           done == [procs[i] EXCEPT !.pending = @ \ {item}]
       IN  /\ IF lucky /\ item.doc.txn \in DOMAIN transactions
              THEN transactions' = [transactions EXCEPT ![item.doc.txn].status = "success"]
              ELSE UNCHANGED transactions
           /\ IF ok
              THEN /\ webhook_retries' =
                        [w \in DOMAIN webhook_retries \ {id} |-> webhook_retries[w]]
                   /\ procs' = [procs EXCEPT ![i] =
                         [done EXCEPT !.applied = @ \cup {<<id, item.doc.nextRetryAt>>}]]
              ELSE IF exists
              THEN /\ webhook_retries' =
                        [webhook_retries EXCEPT
                            ![id] = handleRetryFailure(@, item.doc, now)]
                   /\ procs' = [procs EXCEPT ![i] = done]
              ELSE /\ UNCHANGED webhook_retries
                   /\ procs' = [procs EXCEPT ![i] =
                         InstanceIdle(procs[i].lastCron, procs[i].applied)]
    /\ UNCHANGED <<transaction_status_history, ledger, balances, webhooks,
                   admin_adjustments, admin_audit_log, last, now, lastCron,
                   scheduled, isRunning, sweep>>

\* processRetries returns on instance i and its callback clears isRunning
FleetSweepEnd(i) ==
    /\ procs[i].active
    /\ procs[i].pending = {}
    /\ procs' = [procs EXCEPT ![i] = InstanceIdle(procs[i].lastCron, procs[i].applied)]
    /\ UNCHANGED <<coreVars, last, webhook_retries, now, lastCron, scheduled,
                   isRunning, sweep>>

NextFleet ==
    \/ \E t \in {"t1", UnknownTxn} : FleetScheduleRetry(t)
    \/ \E d \in 1..CronPeriod : FleetAdvance(d)
    \/ \E i \in Instances : FleetCronTick(i)
    \/ \E i \in Instances : \E item \in procs[i].pending, lucky \in BOOLEAN :
          FleetSweepStep(i, item, lucky)
    \/ \E i \in Instances : FleetSweepEnd(i)

SpecFleet == InitFleet /\ [][NextFleet]_vars

\* C30: two scheduler instances never both process the same due retry record:
\* for each due time of a record its webhook is applied by at most one
\* instance.
C30_OneInstancePerDueRecord ==
    \A i \in Instances, j \in Instances :
        i # j => procs[i].applied \cap procs[j].applied = {}

----------------------------------------------------------------------------
(* Manual adjustments by an administrator *)

\* two spaces
Spaces == <<" ", " ">>

\* the <<description, reason>> pairs of the adjustments of the model
AdjustmentTexts ==
    {<<Descr, Descr>>, <<Blank, Descr>>, <<Spaces, Descr>>, <<Descr, Blank>>,
     <<Descr, Spaces>>}

\* the amounts of the adjustments of the model
AdjustmentAmounts == {0, 1, 2, -1}

NextAdjust ==
    \E u \in Users, a \in AdjustmentAmounts, dr \in AdjustmentTexts, f \in BOOLEAN :
        ManualAdjustment(u, a, dr[1], dr[2], f)

SpecAdjust == Init /\ [][NextAdjust]_vars

\* C31: createManualLedgerAdjustment with amount 0, a blank description or a
\* blank reason is rejected before anything is written: no ledger entry, no
\* balance change, no admin_adjustments record and no admin audit log entry.
C31_BadAdjustmentRejected ==
    [][\A u \in Users, a \in AdjustmentAmounts, dr \in AdjustmentTexts, f \in BOOLEAN :
          (/\ a = 0 \/ dr[1] \in {Blank, Spaces} \/ dr[2] \in {Blank, Spaces}
           /\ ManualAdjustment(u, a, dr[1], dr[2], f))
          => /\ last'.result \in {"Amount must be a non-zero number",
                                  "Description is required", "Reason is required"}
             /\ ledger' = ledger
             /\ balances' = balances
             /\ admin_adjustments' = admin_adjustments
             /\ admin_audit_log' = admin_audit_log]_vars

\* an adjustment has been rejected for its reason after another one was made
C31_Witness ==
    /\ last.op = "createManualLedgerAdjustment"
    /\ last.result = "Reason is required"
    /\ Len(ledger) > 0
    /\ Len(admin_adjustments) > 0
    /\ Len(admin_audit_log) > 0

----------------------------------------------------------------------------
(* bulkUpdateTransactionStatus *)

\* a catch block that counts the failure and drops its message
SwallowError(results, transactionId, message) ==
    [results EXCEPT !.failed_count = @ + 1]

\* the catch block of the loop: count the failure and keep its message
CatchError(results, transactionId, message) ==
    [results EXCEPT !.failed_count = @ + 1,
                    !.errors = Append(@, [transaction_id |-> transactionId,
                                          message |-> message])]

\* one round of the loop of bulkUpdateTransactionStatus: acc holds the four
\* collections and the results so far
BulkIteration(acc, transactionId, newStatus, adminId) ==
    LET r == updateTransactionStatus(acc.transactions, acc.history, acc.ledger,
                 acc.balances, transactionId, newStatus, adminId, FALSE)
        stored == [acc EXCEPT !.transactions = r.transactions, !.history = r.history,
                              !.ledger = r.ledger, !.balances = r.balances]
    IN  IF r.error = "ok"
        THEN [stored EXCEPT !.results.success_count = @ + 1]
        ELSE [stored EXCEPT !.results = CatchError(@, transactionId, r.error)]

RECURSIVE BulkLoop(_, _, _, _)
BulkLoop(acc, transactionIds, newStatus, adminId) ==
    IF transactionIds = <<>> THEN acc
    ELSE BulkLoop(BulkIteration(acc, Head(transactionIds), newStatus, adminId),
                  Tail(transactionIds), newStatus, adminId)

\* bulkUpdateTransactionStatus: the collections and the results after the loop
bulkUpdateTransactionStatus(txns, hist, led, bals, transactionIds, newStatus, adminId) ==
    BulkLoop([transactions |-> txns, history |-> hist, ledger |-> led, balances |-> bals,
              results |-> [success_count |-> 0, failed_count |-> 0, errors |-> <<>>]],
             transactionIds, newStatus, adminId)

MaxBulkCalls == 2

\* a call of bulkUpdateTransactionStatus, with the audit log entry it ends with
BulkUpdate(transactionIds, newStatus) ==
    /\ Len(admin_audit_log) < MaxBulkCalls
    /\ Len(transaction_status_history) < MaxHistory
    /\ Len(ledger) < MaxLedger
    /\ LET b == bulkUpdateTransactionStatus(transactions, transaction_status_history,
                    ledger, balances, transactionIds, newStatus, "admin")
       IN  /\ transactions' = b.transactions
           /\ transaction_status_history' = b.history
           /\ ledger' = b.ledger
           /\ balances' = b.balances
           /\ admin_audit_log' = Append(admin_audit_log,
                  [admin_id |-> "admin", action |-> "bulk_status_update"])
           /\ Respond("bulkUpdateTransactionStatus", "ok", b.results)
    /\ UNCHANGED <<webhooks, admin_adjustments, retryVars, procs>>

\* the id lists of the bulk updates of the model
BulkLists ==
    {<<>>, <<"t1">>, <<UnknownTxn, "t1">>, <<"t1", UnknownTxn, "t2">>,
     <<UnknownTxn, UnknownTxn>>, <<"t2", "t1">>}

NextBulk ==
    \/ Pay("u1", 2, "XOF")
    \/ \E ids \in BulkLists, s \in {"completed", "failed", "cancelled"} :
          BulkUpdate(ids, s)

SpecBulk == Init /\ [][NextBulk]_vars

\* the positions of a list that hold an id with no transaction
UnknownPositions(ids) == {i \in 1..Len(ids) : ids[i] \notin DOMAIN transactions}

\* C32: bulkUpdateTransactionStatus over a list of n ids attempts every id even
\* after earlier ones fail (every transaction of the list gets the new status,
\* every id without a transaction gets an error), and returns
\* success_count + failed_count = n with one error message per failed id.
C32_BulkCountsEveryId ==
    [][\A ids \in BulkLists, s \in {"completed", "failed", "cancelled"} :
          BulkUpdate(ids, s)
          => LET res == last'.value IN
             /\ res.success_count + res.failed_count = Len(ids)
             /\ Len(res.errors) = res.failed_count
             /\ \A i \in 1..Len(ids) :
                   ids[i] \in DOMAIN transactions => transactions'[ids[i]].status = s
             /\ Cardinality(UnknownPositions(ids))
                   = Cardinality({k \in 1..Len(res.errors) :
                         res.errors[k].message = "Transaction not found"})
             /\ \A k \in 1..Len(res.errors) :
                   \E i \in 1..Len(ids) : ids[i] = res.errors[k].transaction_id]_vars

\* a bulk update has gone on after a failure: the first id of the list has no
\* transaction, the second one has been completed
C32_Witness ==
    /\ last.op = "bulkUpdateTransactionStatus"
    /\ last.value.success_count = 1
    /\ last.value.failed_count = 1
    /\ Len(last.value.errors) = 1
    /\ last.value.errors[1].transaction_id = UnknownTxn
    /\ "t1" \in DOMAIN transactions
    /\ transactions["t1"].status = "completed"

----------------------------------------------------------------------------
(* getTransactionDetails *)

\* the id of the i-th document of transaction_status_history: updateTransactionStatus
\* generates `status_<time>_<random>` for each record
StatusId(i) == "status_" \o ToString(i)

\* the documents of transaction_status_history the query of getTransactionDetails
\* returns (where id == transactionId), newest first
StatusHistoryOf(hist, transactionId) ==
    LET hits == SelectSeq([i \in 1..Len(hist) |-> [id |-> StatusId(i), doc |-> hist[i]]],
                          LAMBDA h : h.id = transactionId)
    IN  [i \in 1..Len(hits) |-> hits[Len(hits) + 1 - i].doc]

\* the ledger entries of a transaction, newest first
LedgerEntriesOf(led, transactionId) ==
    LET hits == SelectSeq(led, LAMBDA e : e.transaction_id = transactionId)
    IN  [i \in 1..Len(hits) |-> hits[Len(hits) + 1 - i]]

\* getTransactionDetails for a transaction that exists
getTransactionDetails(txns, led, hist, transactionId) ==
    [transaction_id |-> transactionId,
     ledger_entries |-> LedgerEntriesOf(led, transactionId),
     status_history |-> StatusHistoryOf(hist, transactionId)]

\* a call of getTransactionDetails
GetTransactionDetails(transactionId) ==
    /\ IF transactionId \notin DOMAIN transactions
       THEN Respond("getTransactionDetails", "Transaction not found", 0)
       ELSE Respond("getTransactionDetails", "ok",
                getTransactionDetails(transactions, ledger,
                    transaction_status_history, transactionId))
    /\ UNCHANGED <<coreVars, retryVars, procs>>

NextDetails ==
    \/ Pay("u1", 2, "XOF")
    \/ \E t \in {"t1", UnknownTxn}, s \in {"completed", "cancelled"} :
          UpdateTransactionStatusCall(t, s, "admin", FALSE)
    \/ \E t \in {"t1", UnknownTxn} : GetTransactionDetails(t)

SpecDetails == Init /\ [][NextDetails]_vars

\* C33: after updateTransactionStatus has recorded a transition for transaction
\* T, getTransactionDetails(T).status_history contains that transition's record.
C33_DetailsShowHistory ==
    (last.op = "getTransactionDetails" /\ last.result = "ok")
    => \A i \in 1..Len(transaction_status_history) :
          transaction_status_history[i].for_txn = last.value.transaction_id
          => \E k \in 1..Len(last.value.status_history) :
                last.value.status_history[k] = transaction_status_history[i]

----------------------------------------------------------------------------
(* POST /pay with its request validation *)

\* WEST_AFRICAN_COUNTRIES, three of its entries: the dialling code, the name,
\* the numbers of digits its patterns accept and the supported providers
WEST_AFRICAN_COUNTRIES ==
    [ML |-> [code |-> "+223", name |-> "Mali", digits |-> {8},
             supportedProviders |-> {"wave", "orange_money"}],
     SN |-> [code |-> "+221", name |-> "Senegal", digits |-> {9},
             supportedProviders |-> {"wave", "orange_money"}],
     BF |-> [code |-> "+226", name |-> "Burkina Faso", digits |-> {8},
             supportedProviders |-> {"orange_money"}]]

\* a phone number: its dialling code and the number of digits after it
Phone(code, digits) == [code |-> code, digits |-> digits]

\* no phone field in the body
NoPhone == Phone("", 0)

\* validateWestAfricanPhone without a country code: the keys of the countries
\* whose code and patterns the number matches (at most one)
DetectedCountries(phone) ==
    {k \in DOMAIN WEST_AFRICAN_COUNTRIES :
        /\ WEST_AFRICAN_COUNTRIES[k].code = phone.code
        /\ phone.digits \in WEST_AFRICAN_COUNTRIES[k].digits}

\* String.prototype.toUpperCase on the country keys and names of the model
ToUpperCase(text) ==
    CASE text = "Mali" -> "MALI"
      [] text = "Senegal" -> "SENEGAL"
      [] text = "Burkina Faso" -> "BURKINA FASO"
      [] OTHER -> text

\* isProviderSupportedInCountry(provider, countryCode)
isProviderSupportedInCountry(provider, countryCode) ==
    LET key == ToUpperCase(countryCode) IN
    IF key \in DOMAIN WEST_AFRICAN_COUNTRIES
    THEN provider \in WEST_AFRICAN_COUNTRIES[key].supportedProviders
    ELSE FALSE

\* the provider check of validateRequest and of the handler: both pass the
\* name of the detected country
ProviderCheck(method, country) ==
    isProviderSupportedInCountry(method, WEST_AFRICAN_COUNTRIES[country].name)

\* validateRequest({}): "next" or the code of its 400 response; a missing
\* field ("" or 0) is skipped
validateRequest(amount, currency, method, phone) ==
    IF amount # 0 /\ amount <= 0 THEN "INVALID_AMOUNT"
    ELSE IF currency # "" /\ currency # "XOF" THEN "INVALID_CURRENCY"
    ELSE IF phone # NoPhone /\ DetectedCountries(phone) = {} THEN "INVALID_PHONE"
    ELSE IF phone # NoPhone /\ method # ""
            /\ ~ProviderCheck(method, CHOOSE k \in DetectedCountries(phone) : TRUE)
    THEN "PROVIDER_NOT_SUPPORTED"
    ELSE "next"

\* the checks of the handler that follow the amount and currency checks
MethodAndPhoneCheck(method, phone) ==
    IF method \notin {"orange_money", "wave"} THEN "INVALID_METHOD"
    ELSE IF phone = NoPhone THEN "MISSING_PHONE"
    ELSE IF DetectedCountries(phone) = {} THEN "INVALID_PHONE"
    ELSE IF ~ProviderCheck(method, CHOOSE k \in DetectedCountries(phone) : TRUE)
    THEN "PROVIDER_NOT_SUPPORTED"
    ELSE "ok"

\* a POST /pay request of an authenticated user from its arrival
PayRequest(userId, amount, currency, method, phone) ==
    LET v == validateRequest(amount, currency, method, phone)
        c == MethodAndPhoneCheck(method, phone)
    IN  IF v # "next"
        THEN Respond("pay", v, 400) /\ UNCHANGED <<coreVars, retryVars, procs>>
        ELSE IF amount > 0 /\ currency = "XOF" /\ c # "ok"
        THEN Respond("pay", c, 400) /\ UNCHANGED <<coreVars, retryVars, procs>>
        ELSE Pay(userId, amount, currency)

\* the phone numbers of the requests of the model: Mali, Burkina Faso, Senegal,
\* a Mali code with a digit too many, and none
Phones ==
    {Phone("+223", 8), Phone("+226", 8), Phone("+221", 9), Phone("+223", 9), NoPhone}

NextPayRequests ==
    \/ \E a \in {0, 2, -1}, c \in {"XOF", "EUR"}, m \in {"wave", "orange_money", "paypal", ""},
          ph \in Phones :
          PayRequest("u1", a, c, m, ph)
    \/ \E u \in Users, a \in {1, 2, -1} : ManualAdjustment(u, a, Descr, Descr, FALSE)
    \/ Reconcile("u1")

SpecPayRequests == Init /\ [][NextPayRequests]_vars

\* C34: the provider check of POST /pay passes exactly when the requested
\* method is in supportedProviders of the country detected from the phone
\* number: a valid request is answered PROVIDER_NOT_SUPPORTED if and only if
\* the method is not supported there (wave and orange_money pass for Mali,
\* wave is rejected for Burkina Faso).
C34_ProviderCheckMatchesTable ==
    [][\A m \in {"wave", "orange_money"}, ph \in Phones :
          (DetectedCountries(ph) # {} /\ PayRequest("u1", 2, "XOF", m, ph))
          => LET country == CHOOSE k \in DetectedCountries(ph) : TRUE IN
             (last'.result = "PROVIDER_NOT_SUPPORTED")
                <=> (m \notin WEST_AFRICAN_COUNTRIES[country].supportedProviders)]_vars

----------------------------------------------------------------------------
(* createLedgerEntry with entries of every status *)

NextEntryStatus ==
    \E u \in Users, t \in {"payment", "payout"}, a \in {1, 2}, st \in EntryStatuses :
        CreateLedgerEntryCall(Draft(u, t, a, st, "none"), FALSE)

SpecEntryStatus == Init /\ [][NextEntryStatus]_vars

\* C35: createLedgerEntry changes available_balance only for entries whose
\* status is completed: persisting an entry with status pending, failed or
\* cancelled leaves the balance record of its account unchanged.
C35_OnlyCompletedMovesBalance ==
    [][(/\ last'.op = "createLedgerEntry"
        /\ Len(ledger') = Len(ledger) + 1
        /\ ledger'[Len(ledger')].status # "completed")
       => balances' = balances]_vars

\* C36: for every persisted ledger entry, balance_before equals the account's
\* cached available_balance immediately before the entry's delta was applied
\* and balance_after equals it immediately after, payout entries included.
C36_EntryBracketsBalance ==
    [][(/\ last'.op = "createLedgerEntry"
        /\ last'.result = "ok"
        /\ Len(ledger') = Len(ledger) + 1)
       => LET entry == ledger'[Len(ledger')] IN
          /\ entry.balance_before = AvailableOrZero(balances, entry.user_id)
          /\ entry.balance_after = AvailableOrZero(balances', entry.user_id)]_vars

----------------------------------------------------------------------------
(* updateTransactionStatus when it throws *)

\* C37: a failed transition is not partially applied: if updateTransactionStatus
\* throws, the transaction's status field and its status history are the same
\* as before the call.
C37_FailedTransitionNotApplied ==
    [][(last'.op = "updateTransactionStatus" /\ last'.result # "ok")
       => /\ \A t \in DOMAIN transactions :
                t \in DOMAIN transactions'
                /\ transactions'[t].status = transactions[t].status
          /\ transaction_status_history' = transaction_status_history]_vars

----------------------------------------------------------------------------
(* scheduleRetry for a webhook id that already has a retry document *)

MaxReschedules == 1

\* scheduleRetry(webhookId, ...) when webhook_retries holds a document with
\* that id: set() without merge replaces the whole document
RescheduleRetry(id) ==
    /\ id \in DOMAIN webhook_retries
    /\ scheduled < MaxFleetRetries + MaxReschedules
    /\ webhook_retries' =
           [webhook_retries EXCEPT ![id] =
               [txn |-> @.txn, retryCount |-> 0,
                nextRetryAt |-> now + RetryDelays[1], status |-> "",
                createdAt |-> now, attempts |-> 0, since |-> now]]
    /\ scheduled' = scheduled + 1
    /\ UNCHANGED <<coreVars, last, now, lastCron, isRunning, sweep, procs>>

NextReschedule ==
    \/ \E t \in {"t1", UnknownTxn} : FleetScheduleRetry(t)
    \/ \E id \in DOMAIN webhook_retries : RescheduleRetry(id)
    \/ \E d \in 1..CronPeriod : Advance(d)
    \/ CronTick
    \/ \E item \in sweep.pending, lucky \in BOOLEAN : SweepStep(item, lucky)
    \/ SweepEnd

SpecReschedule == InitConc /\ [][NextReschedule]_vars

\* C38: permanently_failed is absorbing: once a retry record is marked
\* permanently_failed no later operation (scheduleRetry with the same webhook
\* id, a sweep) returns it to a state a sweep will pick up, and the retryCount
\* of a record never decreases.
C38_PermanentlyFailedAbsorbing ==
    [][\A id \in DOMAIN webhook_retries \cap DOMAIN webhook_retries' :
          /\ webhook_retries'[id].retryCount >= webhook_retries[id].retryCount
          /\ webhook_retries[id].status = "permanently_failed"
             => /\ webhook_retries'[id].status = "permanently_failed"
                /\ id \notin DueRetries(webhook_retries', MaxTime)]_vars

----------------------------------------------------------------------------
(* One retry record under a scheduler whose cron job keeps firing *)

\* scheduleRetry for the first failed webhook
ScheduleFirstRetry(transactionId) ==
    /\ webhook_retries = <<>>
    /\ scheduled = 0
    /\ ScheduleRetry(transactionId)

\* time passes between sweeps: a sweep handles its documents and returns
\* within the minute of its cron tick
SettleAdvance(d) ==
    /\ ~sweep.active
    /\ Advance(d)

NextSettle ==
    \/ \E t \in {"t1", UnknownTxn} : ScheduleFirstRetry(t)
    \/ \E d \in 1..CronPeriod : SettleAdvance(d)
    \/ CronTick
    \/ \E item \in sweep.pending, lucky \in BOOLEAN : SweepStep(item, lucky)
    \/ SweepEnd

\* time passes, the cron job fires every minute, and a sweep that has started
\* goes on to handle its documents and to return
SpecSettle ==
    /\ InitConc
    /\ [][NextSettle]_vars
    /\ WF_vars(\E d \in 1..CronPeriod : SettleAdvance(d))
    /\ WF_vars(CronTick)
    /\ WF_vars(\E item \in sweep.pending, lucky \in BOOLEAN : SweepStep(item, lucky))
    /\ WF_vars(SweepEnd)

SweepErrorMessage == "Webhook retry processing error:"

\* a round of the sweep together with the console: the catch of the cron
\* callback logs the error processRetries threw
LoggedSweepStep(item, lucky) ==
    /\ SweepRound(item, lucky)
    /\ IF Throws(item, lucky)
       THEN Respond("cron", "error", SweepErrorMessage)
       ELSE UNCHANGED last

NextGuard ==
    \/ \E t \in {"t1", UnknownTxn} : ScheduleRetry(t)
    \/ \E d \in 1..CronPeriod : Advance(d)
    \/ CronTick
    \/ \E item \in sweep.pending, lucky \in BOOLEAN : LoggedSweepStep(item, lucky)
    \/ SweepEnd
    \/ \E daysOld \in {0, 30} : CleanupOldRetries(daysOld)

SpecGuard == InitConc /\ [][NextGuard]_vars

\* C40: the overlap guard is always released: isRunning is set only while a
\* sweep is in flight, the step that ends a sweep, by returning or by
\* throwing, leaves isRunning false, and a cron tick that finds no sweep in
\* flight, also after a sweep that threw, starts a new sweep
C40_GuardReleased ==
    /\ [](~sweep.active => ~isRunning)
    /\ [][(sweep.active /\ ~sweep'.active) => ~isRunning']_vars
    /\ [][(~sweep.active /\ CronTick) => (sweep'.active /\ isRunning')]_vars

\* a sweep threw, the callback logged it, and a later tick started a new sweep
C40_Witness ==
    /\ last.result = "error"
    /\ last.value = SweepErrorMessage
    /\ sweep.active
    /\ isRunning
    /\ sweep.now >= 2 * CronPeriod

====
